---- MODULE Spec2Model ----
(***************************************************************************)
(* A model of the DriftCoder SSH backend (src-tauri).                      *)
(*                                                                         *)
(* Spec         the session registry (AppState), the front-end commands    *)
(*              that touch it and the life cycle of the connection actors  *)
(* SpecConnect  SshConnection::connect over the resolved addresses and the *)
(*              host-key store                                             *)
(* SpecTraverse SshConnection::connect to an untrusted host that resolves  *)
(*              to addresses of both families: the address traversal       *)
(* SpecFacade   the SFTP facade of SshConnection called directly           *)
(* SpecDelete   SshConnection::delete called directly, with the calls it   *)
(*              awaits written down                                        *)
(* SpecActor    one connection actor serving its mailbox through the       *)
(*              facade, each request under its timeout                     *)
(* SpecFrame    the actor specification with the CreatePty arm             *)
(* SpecLive     the commands and actors of one connection id, with the     *)
(*              scheduling the runtime and the timeouts give               *)
(* SpecCache    the directory cache of one actor under ListDir and         *)
(*              mutation requests on arbitrary paths, with a clock         *)
(* SpecEvict    the directory cache with a capacity the requests of a run  *)
(*              exceed: the eviction of the oldest entries                 *)
(* SpecKeys     the directory cache under ListDir requests that spell the  *)
(*              same directories in different ways                         *)
(* SpecState    the operations of AppState applied in any order            *)
(* SpecDisconnect  the registry specification without ssh_reconnect, with  *)
(*              the scheduling of a running ssh_disconnect                 *)
(* SpecPty      one PTY session: its pump task and the terminal commands   *)
(*              that reach it under the registry lock                      *)
(* SpecPump     one PTY session from PtySession::new on: the startup       *)
(*              writes, the channel messages and the commands of its task  *)
(* SpecKnownHosts  the host-key store of known_hosts.rs with its file and  *)
(*              process restarts                                           *)
(* SpecStoreLock  concurrent calls on the host-key store, each waiting for  *)
(*              the store's mutex and holding it over its file I/O         *)
(* SpecHostKeys the callers of the host-key store (trust, forget, list and *)
(*              the key check of a connect attempt) over the store and a   *)
(*              file that can be left unparsable                           *)
(*                                                                         *)
(* Each specification moves its own variables and leaves the others as     *)
(* Init set them.                                                          *)
(*                                                                         *)
(* Integer ids use 0 for "absent"; string ids use "none".                  *)
(***************************************************************************)
EXTENDS Integers, Sequences, FiniteSets, TLC

\* ------------------------------------------------------------------ bounds
\* Actor tasks spawned over a run (ssh_connect and ssh_reconnect each spawn one).
MaxActors == 2
\* Terminal ids handed out over a run.
MaxTerms == 1
\* Socket addresses a DNS lookup returns.
MaxAddrs == 2
\* Distinct server host keys.
MaxKeys == 2
\* Requests sent to one actor over a run.
MaxReq == 2
\* The counters kept over a sequence of facade calls stop counting here.
HistCap == 2
\* Seconds a server takes to answer when it is slow, and when it stalls.
StallShort == 40
StallLong == 200
\* Requests served over a run of the directory-cache specification.
MaxCacheOps == 3
\* Seconds the clock advances at a time, and the second it stops at.
CacheTick == 5
MaxNow == 15
\* Terminal commands issued over a run of the PTY specification.
MaxPtyCmds == 5
\* Commands the PTY command channel holds (100 in the code, scaled down).
PtyChannelCap == 2
\* Entries the directory cache of SpecEvict holds (DIR_CACHE_MAX_ENTRIES, 128,
\* in the code; scaled down so that the requests of a run fill it).
ScaledMaxEntries == 2
\* Calls of delete in a run of SpecDelete.
MaxDeletes == 2
\* Terminal commands called and channel messages delivered in a run of SpecPump.
MaxPumpEvents == 4
\* Calls on the host-key store over a run.
MaxStoreOps == 3
\* Calls on the host-key store by concurrent callers over a run.
MaxLockedCalls == 3

\* ------------------------------------------------------------------ sets
\* Connection ids (Uuid strings in the code).
ConnIds == {"c1", "c2"}
\* Concurrent front-end command invocations.
Procs == {1, 2}
ActorIds == 1..MaxActors
TermIds == 1..MaxTerms
\* Socket addresses: the odd ones are IPv6, the even ones IPv4.
Addrs == 1..MaxAddrs
\* Server public keys.
Keys == 1..MaxKeys
\* The (host, port) pairs of the host-key store, as KnownHostEntry::key() names them.
Targets == {"h1:22", "h2:22"}

VARIABLES
    \* ---- session registry and actors (Spec)
    connections,    \* AppState.connections: conn id -> actor handle (0: no entry)
    terminals,      \* AppState.terminals: terminal id -> PtySession.connection_id ("none": no entry)
    ptyActor,       \* terminal id -> the actor on whose SSH connection the PtySession's channel is (0: no entry)
    usedConnIds,    \* connection ids in use: generated by ssh_connect or given to ssh_reconnect
    actorPc,        \* actor task position: unspawned, spawned, waiting, busy, exited, aborted
    mailbox,        \* the actor's mpsc mailbox: sequence of requests
    current,        \* the request the actor is processing
    events,         \* connection_status_changed statuses emitted by the actor, in order
    nextTerm,       \* terminal ids created so far
    procs,          \* the running command invocations, each with its one-shot reply channel
    \* ---- SshConnection::connect and the host-key store (SpecConnect)
    knownHosts,     \* known_hosts store: target -> fingerprint_sha256 (<<>>: no entry)
    connPc,         \* position of the connect call: idle, tcp, handshake, auth, done
    connTarget,     \* the (host, port) being connected to
    resolved,       \* the resolved addresses, sorted
    addrIdx,        \* index of the outer loop in resolved
    attempt,        \* index of the inner loop: 0 or 1
    last_error,     \* last_error: Option<SshError>
    handle,         \* handle: the address the established session is on (0: None)
    attempts,       \* the attempts made so far: address, attempt index, kind of outcome
    hostKeyCheck,   \* the latest check_server_key: key presented, entry found, verdict
    connResult,     \* what connect returned
    \* ---- the SFTP facade of one SshConnection (SpecFacade, SpecActor)
    sftp,           \* SshConnection.sftp: TRUE when a session handle is cached
    op,             \* the facade operation in progress and what it has done so far
    hist,           \* counters over the sequence of facade calls made directly
    \* ---- one connection actor at the grain of its requests (SpecActor)
    loopPc,         \* actor task position: start, waiting, busy, exited
    rx,             \* the mailbox
    request,        \* the request in hand
    inflight,       \* ids of the requests whose processing has begun and not ended
    replies,        \* ids of the requests answered, in the order of the answers
    last,           \* how the latest answered request went
    nextReq,        \* requests sent so far
    elapsed,        \* seconds the request in hand has been running
    expiredIds,     \* ids of the requests whose per-op timeout expired
    dir_cache,      \* DirectoryCache.entries: the cached directory paths
    statusEvents,   \* connection_status_changed statuses emitted
    \* ---- the directory cache of one actor with its clock (SpecCache)
    entries,        \* DirectoryCache.entries: key -> (created_at, entries)
    now,            \* Instant::now(), in seconds
    serverVer,      \* the state of the remote file system: the listing a read_dir yields
    cacheOps,       \* requests served so far
    lastReq,        \* the latest request served and what the actor did for it
    \* ---- an AppState under direct calls of its operations (SpecState)
    appState,       \* the AppState: its connections and terminals maps
    lastCall,       \* the latest call: operation, id, the AppState before it, the terminals returned
    \* ---- one PTY session, its pump task and the terminal commands (SpecPty)
    ptyRegistered,  \* the PtySession is in AppState.terminals
    cmd_rx,         \* the PTY command channel: the PtyCommands sent and not yet received
    pumpPc,         \* pump task position: select, writing, resizing, ended
    stateLock,      \* the invocation holding the registry mutex (0: free)
    termCmd,        \* the running terminal commands: command and position
    channelCloses,  \* calls of channel.close() made by the pump
    pumpExits,      \* times the pump left its loop
    ptyCmds,        \* terminal commands issued so far
    \* ---- host-key store with its file (SpecKnownHosts)
    KNOWN_HOSTS,    \* the static KnownHostsState: [loaded, entries]
    known_hosts_json, \* the file known_hosts.json: [found, bytes]
    storeHist,      \* the last three calls on the store, oldest first
    storeOps,       \* calls made so far; each takes a millisecond of now_ms()
    \* ---- concurrent callers of the host-key store (SpecStoreLock)
    storeTasks,     \* each caller's call on the store and its position in it
    lockHolder,     \* the caller holding the guard of store().lock() (0: free)
    serialStore,    \* the store and file had each call run alone, in lock order
    fileReads,      \* times this process read and decoded the file
    lastReturn,     \* the call that returned last: what it returned, and what
                    \* it returns when run alone in lock order
    \* ---- the spellings of the cached directories (SpecKeys)
    cachedAs,       \* for each key of the cache, the path of the ListDir request
                    \* that stored its entry
    \* ---- one PTY session from PtySession::new to the end of its task (SpecPump)
    ptyTask,        \* the spawned task: position, startup arguments, why it ended
    ptyChannel,     \* the SSH channel: bytes written, messages arrived, events
                    \* emitted, calls of channel.close()
    ptyCommands,    \* the PtyCommands in the command channel, oldest first
    ptyHandle,      \* the PtySession: registered, closed (close() sent Close and
                    \* it was dropped) or dropped (without a Close sent)
    ptyAccepted,    \* the payloads of the terminal_write calls that returned Ok
    ptyLast,        \* the last terminal command and what it returned
    ptyCalls,       \* terminal commands and channel messages so far
    \* ---- SshConnection::delete called directly (SpecDelete)
    deleteLog,      \* the awaited calls of the running or last delete, with
                    \* what each returned
    deleteCalls     \* calls of delete so far

regVars == <<connections, terminals, ptyActor, usedConnIds, actorPc,
             mailbox, current, events, nextTerm, procs>>

connVars == <<knownHosts, connPc, connTarget, resolved, addrIdx, attempt,
              last_error, handle, attempts, hostKeyCheck, connResult>>

facadeVars == <<sftp, op, hist>>

actorVars == <<loopPc, rx, request, inflight, replies, last, nextReq, elapsed,
               expiredIds, dir_cache, statusEvents>>

cacheVars == <<entries, now, serverVer, cacheOps, lastReq>>

stateVars == <<appState, lastCall>>

ptyVars == <<ptyRegistered, cmd_rx, pumpPc, stateLock, termCmd, channelCloses,
             pumpExits, ptyCmds>>
storeVars == <<KNOWN_HOSTS, known_hosts_json, storeHist, storeOps>>

lockVars == <<storeTasks, lockHolder, serialStore, fileReads, lastReturn>>

keyVars == <<cachedAs>>

pumpVars == <<ptyTask, ptyChannel, ptyCommands, ptyHandle, ptyAccepted, ptyLast, ptyCalls>>

deleteVars == <<deleteLog, deleteCalls>>

\* The variables the registry specification leaves alone.
nonRegVars == <<connVars, facadeVars, actorVars, cacheVars, stateVars, ptyVars, storeVars,
    lockVars, keyVars, pumpVars, deleteVars>>

nonConnVars == <<regVars, facadeVars, actorVars, cacheVars, stateVars, ptyVars, storeVars,
    lockVars, keyVars, pumpVars, deleteVars>>

\* The variables the facade specification leaves alone.
nonFacadeVars == <<regVars, connVars, actorVars, cacheVars, stateVars, ptyVars, storeVars,
    lockVars, keyVars, pumpVars, deleteVars>>

\* The variables the actor specification leaves alone.
nonActorVars == <<regVars, connVars, hist, cacheVars, stateVars, ptyVars, storeVars,
    lockVars, keyVars, pumpVars, deleteVars>>

\* The variables the directory-cache specification leaves alone.
nonCacheVars == <<regVars, connVars, facadeVars, actorVars, stateVars, ptyVars, storeVars,
    lockVars, keyVars, pumpVars, deleteVars>>

\* The variables the AppState specification leaves alone.
nonStateVars == <<regVars, connVars, facadeVars, actorVars, cacheVars, ptyVars, storeVars,
    lockVars, keyVars, pumpVars, deleteVars>>

\* The variables the PTY specification leaves alone.
nonPtyVars == <<regVars, connVars, facadeVars, actorVars, cacheVars, stateVars, storeVars,
    lockVars, keyVars, pumpVars, deleteVars>>

\* The variables the host-key store specification leaves alone.
nonStoreVars == <<regVars, connVars, facadeVars, actorVars, cacheVars, stateVars, ptyVars,
    lockVars, keyVars, pumpVars, deleteVars>>

\* The variables the specification of the store's lock leaves alone.
nonLockVars == <<regVars, connVars, facadeVars, actorVars, cacheVars, stateVars, ptyVars,
    storeHist, keyVars,
    pumpVars, deleteVars>>

\* The variables the specification of the cache keys leaves alone.
nonKeysVars == <<regVars, connVars, facadeVars, actorVars, stateVars, ptyVars, storeVars,
    lockVars,
    pumpVars, deleteVars>>

vars == <<regVars, connVars, facadeVars, actorVars, cacheVars, stateVars, ptyVars,
          storeVars, lockVars, keyVars, pumpVars, deleteVars>>

\* The variables the specification of delete leaves alone.
nonDeleteVars == <<regVars, connVars, hist, actorVars, cacheVars, stateVars, ptyVars,
    storeVars, lockVars, keyVars, pumpVars>>

\* The variables the specification of the PTY task leaves alone.
nonPumpVars == <<regVars, connVars, facadeVars, actorVars, cacheVars, stateVars, ptyVars,
    storeVars, lockVars, keyVars, deleteVars>>

\* =====================================================================
\* Session registry (state.rs)
\* =====================================================================

NoRequest == [kind |-> "none", from |-> 0]
NoReply == [st |-> "none", term |-> 0]
IdleProc == [cmd |-> "idle", pc |-> "idle", conn |-> "none", actor |-> 0,
             reply |-> NoReply, term |-> 0, stale |-> 0]

\* AppState::add_connection
add_connection(conns, id, h) == [conns EXCEPT ![id] = h]

\* The AppState: its two maps.
AppState(conns, terms) == [connections |-> conns, terminals |-> terms]

\* The mutation of remove_connection that takes the terminals of the connection too.
remove_connection_and_terminals(state, id) ==
    [connections |-> [state.connections EXCEPT ![id] = 0],
     terminals |-> [t \in DOMAIN state.terminals |->
                      IF state.terminals[t] = id THEN "none" ELSE state.terminals[t]]]

\* AppState::remove_connection: self.connections.remove(id)
remove_connection(state, id) == [state EXCEPT !.connections[id] = 0]

\* AppState::get_connection_sender
get_connection_sender(conns, id) == conns[id]

\* AppState::add_terminal
add_terminal(terms, id, connId) == [terms EXCEPT ![id] = connId]

\* AppState::remove_terminal
remove_terminal(terms, id) == [terms EXCEPT ![id] = "none"]

\* AppState::take_terminals_for_connection: the ids taken, and the map left.
TerminalsOf(terms, connId) == {t \in DOMAIN terms : terms[t] = connId}
take_terminals_for_connection(terms, connId) ==
    [t \in DOMAIN terms |-> IF terms[t] = connId THEN "none" ELSE terms[t]]

RegistryInit ==
    /\ connections = [c \in ConnIds |-> 0]
    /\ terminals = [t \in TermIds |-> "none"]
    /\ ptyActor = [t \in TermIds |-> 0]
    /\ usedConnIds = {}
    /\ actorPc = [a \in ActorIds |-> "unspawned"]
    /\ mailbox = [a \in ActorIds |-> <<>>]
    /\ current = [a \in ActorIds |-> NoRequest]
    /\ events = [a \in ActorIds |-> <<>>]
    /\ nextTerm = 0
    /\ procs = [p \in Procs |-> IdleProc]

\* ---------------------------------------------------------------------
\* Actor tasks (actor.rs), at the grain the registry sees
\* ---------------------------------------------------------------------

ActorEnded(a) == actorPc[a] \in {"exited", "aborted"}

\* The mutation of the abort that leaves the task running.
KeepTask(pcs, a) == pcs

\* JoinHandle::abort: cancels the task at its next suspension point; a task that
\* has finished is left as it is.
AbortTask(pcs, a) == [pcs EXCEPT ![a] = IF pcs[a] \in {"spawned", "waiting", "busy"}
                                         THEN "aborted" ELSE pcs[a]]

\* The mutation of the end of a task that leaves the queued requests, and their
\* reply senders, in the mailbox.
KeepMailbox(mb, a) == mb

\* The task ends (exit or abort): its receiver is dropped, and with it the queued
\* requests, the request in hand and their reply senders.
DropMailbox(mb, a) == [mb EXCEPT ![a] = <<>>]
DropCurrent(cur, a) == [cur EXCEPT ![a] = NoRequest]

\* spawn_connection_actor: a new task, not yet polled.
FreshActor == CHOOSE a \in ActorIds :
                 /\ actorPc[a] = "unspawned"
                 /\ \A b \in ActorIds : b < a => actorPc[b] # "unspawned"
CanSpawn == \E a \in ActorIds : actorPc[a] = "unspawned"

\* The senders of an actor's mailbox that are alive: the handle in the registry
\* and the clones (or the removed handle) command invocations hold.
SendersAlive(a) ==
    \/ \E c \in ConnIds : connections[c] = a
    \/ \E p \in Procs : procs[p].actor = a

\* The loop exit (actor.rs:385-400): "disconnected" is emitted and the task ends.
EmitDisconnected(evs, a) == [evs EXCEPT ![a] = Append(@, "disconnected")]

\* First poll of the task: emits "connected" (actor.rs:98-105) and enters the loop.
ActorStart(a) ==
    /\ actorPc[a] = "spawned"
    /\ events' = [events EXCEPT ![a] = Append(@, "connected")]
    /\ actorPc' = [actorPc EXCEPT ![a] = "waiting"]
    /\ UNCHANGED <<connections, terminals, ptyActor, usedConnIds, mailbox, current,
                   nextTerm, procs>>
    /\ UNCHANGED nonRegVars

\* rx.recv() yields the next request (actor.rs:112).
ActorRecv(a) ==
    /\ actorPc[a] = "waiting"
    /\ mailbox[a] # <<>>
    /\ current' = [current EXCEPT ![a] = Head(mailbox[a])]
    /\ mailbox' = [mailbox EXCEPT ![a] = Tail(@)]
    /\ actorPc' = [actorPc EXCEPT ![a] = "busy"]
    /\ UNCHANGED <<connections, terminals, ptyActor, usedConnIds, events, nextTerm, procs>>
    /\ UNCHANGED nonRegVars

\* respond_to.send(result), and the loop's fate after it (actor.rs:379-382).
Respond(a, st, term, exits) ==
    /\ procs' = [procs EXCEPT ![current[a].from].reply = [st |-> st, term |-> term]]
    /\ current' = DropCurrent(current, a)
    /\ IF exits
          THEN /\ events' = EmitDisconnected(events, a)
               /\ actorPc' = [actorPc EXCEPT ![a] = "exited"]
               /\ mailbox' = DropMailbox(mailbox, a)
          ELSE /\ actorPc' = [actorPc EXCEPT ![a] = "waiting"]
               /\ UNCHANGED <<events, mailbox>>

\* CreatePty completes (actor.rs:348-370): a PtySession with a new pump task, or
\* a ChannelError, which is fatal.
ActorFinishPty(a) ==
    /\ actorPc[a] = "busy"
    /\ current[a].kind = "pty"
    /\ \/ /\ nextTerm < MaxTerms
          /\ nextTerm' = nextTerm + 1
          /\ Respond(a, "ok", nextTerm + 1, FALSE)
       \/ /\ nextTerm' = nextTerm
          /\ Respond(a, "fatal", 0, TRUE)
    /\ UNCHANGED <<connections, terminals, ptyActor, usedConnIds>>
    /\ UNCHANGED nonRegVars

\* Disconnect completes (actor.rs:371-376): acknowledged, then the loop is left.
ActorFinishDisconnect(a) ==
    /\ actorPc[a] = "busy"
    /\ current[a].kind = "disconnect"
    /\ \E res \in {"ok", "err"} : Respond(a, res, 0, TRUE)
    /\ UNCHANGED <<connections, terminals, ptyActor, usedConnIds, nextTerm>>
    /\ UNCHANGED nonRegVars

\* rx.recv() yields None: every sender is gone and the mailbox is empty
\* (actor.rs:112, 386-389).
ActorMailboxClosed(a) ==
    /\ actorPc[a] = "waiting"
    /\ mailbox[a] = <<>>
    /\ ~SendersAlive(a)
    /\ events' = EmitDisconnected(events, a)
    /\ actorPc' = [actorPc EXCEPT ![a] = "exited"]
    /\ UNCHANGED <<connections, terminals, ptyActor, usedConnIds, mailbox, current,
                   nextTerm, procs>>
    /\ UNCHANGED nonRegVars

\* ---------------------------------------------------------------------
\* Commands (commands/connection.rs, commands/terminal.rs)
\* ---------------------------------------------------------------------

\* A new invocation takes the lowest free slot (the slots are interchangeable).
Idle(p) == /\ procs[p].cmd = "idle"
           /\ \A q \in Procs : q < p => procs[q].cmd # "idle"
At(p, cmd, pc) == procs[p].cmd = cmd /\ procs[p].pc = pc
Finish(p) == procs' = [procs EXCEPT ![p] = IdleProc]
Begin(p, cmd, pc, c, a) ==
    procs' = [procs EXCEPT ![p] = [IdleProc EXCEPT !.cmd = cmd, !.pc = pc, !.conn = c,
                                                  !.actor = a]]

\* The caller's view of its one-shot receiver: a result, or the sender dropped.
Replied(p) == procs[p].reply.st # "none"
ReplyClosed(p) == ~Replied(p) /\ ActorEnded(procs[p].actor)

\* tx.send(request).await: the request enters the mailbox of a live actor. Each
\* invocation has at most one request outstanding, so the mailbox of 64 is never full.
Enqueue(p, kind) ==
    /\ ~ActorEnded(procs[p].actor)
    /\ mailbox' = [mailbox EXCEPT ![procs[p].actor] = Append(@, [kind |-> kind, from |-> p])]
    /\ procs' = [procs EXCEPT ![p].pc = "wait"]

\* ssh_connect, success path (connection.rs:188-198): under the registry lock a
\* new id is generated, the actor is spawned and its handle is registered. The
\* failure paths return before the registry is touched.
SshConnect(c) ==
    /\ c \notin usedConnIds
    /\ CanSpawn
    /\ usedConnIds' = usedConnIds \cup {c}
    /\ actorPc' = [actorPc EXCEPT ![FreshActor] = "spawned"]
    /\ connections' = add_connection(connections, c, FreshActor)
    /\ UNCHANGED <<terminals, ptyActor, mailbox, current, events, nextTerm, procs>>
    /\ UNCHANGED nonRegVars

\* ssh_reconnect, first lock scope and the close() of the stale terminals
\* (connection.rs:212-223): the terminals of conn_id are taken, the handle is
\* removed and its task aborted.
SshReconnectTake(p, c) ==
    /\ Idle(p)
    /\ usedConnIds' = usedConnIds \cup {c}
    /\ LET taken == AppState(connections, take_terminals_for_connection(terminals, c))
           removed == remove_connection(taken, c)
       IN  /\ connections' = removed.connections
           /\ terminals' = removed.terminals
           /\ ptyActor' = [t \in TermIds |->
                              IF t \in TerminalsOf(terminals, c) THEN 0 ELSE ptyActor[t]]
    /\ IF connections[c] # 0
          THEN /\ actorPc' = AbortTask(actorPc, connections[c])
               /\ mailbox' = DropMailbox(mailbox, connections[c])
               /\ current' = DropCurrent(current, connections[c])
          ELSE UNCHANGED <<actorPc, mailbox, current>>
    /\ procs' = [procs EXCEPT ![p] = [IdleProc EXCEPT !.cmd = "reconnect",
                                          !.pc = "connect", !.conn = c,
                                          !.stale = connections[c]]]
    /\ UNCHANGED <<events, nextTerm>>
    /\ UNCHANGED nonRegVars

\* ssh_reconnect (connection.rs:225-281): connect or the SFTP probe fails, and
\* the command returns; or they succeed and the new actor is spawned.
SshReconnectConnect(p) ==
    /\ At(p, "reconnect", "connect")
    /\ \/ /\ Finish(p)
          /\ UNCHANGED actorPc
       \/ /\ CanSpawn
          /\ actorPc' = [actorPc EXCEPT ![FreshActor] = "spawned"]
          /\ procs' = [procs EXCEPT ![p].pc = "add", ![p].actor = FreshActor]
    /\ UNCHANGED <<connections, terminals, ptyActor, usedConnIds, mailbox, current, events, nextTerm>>
    /\ UNCHANGED nonRegVars

\* ssh_reconnect, second lock scope (connection.rs:283-287).
SshReconnectAdd(p) ==
    /\ At(p, "reconnect", "add")
    /\ connections' = add_connection(connections, procs[p].conn, procs[p].actor)
    /\ Finish(p)
    /\ UNCHANGED <<terminals, ptyActor, usedConnIds, actorPc, mailbox, current, events,
                   nextTerm>>
    /\ UNCHANGED nonRegVars

\* ssh_disconnect, lock scope (connection.rs:296-301); with no handle only the
\* terminals taken are closed (connection.rs:324-329) and the command returns.
SshDisconnectTake(p, c) ==
    /\ Idle(p)
    /\ LET removed == remove_connection(AppState(connections, terminals), c)
       IN  /\ connections' = removed.connections
           /\ terminals' = take_terminals_for_connection(removed.terminals, c)
           /\ ptyActor' = [t \in TermIds |->
                              IF t \in TerminalsOf(terminals, c) THEN 0 ELSE ptyActor[t]]
    /\ IF connections[c] # 0
          THEN Begin(p, "disconnect", "send", c, connections[c])
          ELSE /\ TerminalsOf(terminals, c) # {}
               /\ UNCHANGED procs
    /\ UNCHANGED <<usedConnIds, actorPc, mailbox, current, events, nextTerm>>
    /\ UNCHANGED nonRegVars

\* ssh_disconnect (connection.rs:304-308): the Disconnect request is sent; a send
\* to an ended actor fails and is ignored.
SshDisconnectSend(p) ==
    /\ At(p, "disconnect", "send")
    /\ \/ /\ ActorEnded(procs[p].actor)
          /\ procs' = [procs EXCEPT ![p].pc = "wait"]
          /\ UNCHANGED mailbox
       \/ Enqueue(p, "disconnect")
    /\ UNCHANGED <<connections, terminals, ptyActor, usedConnIds, actorPc, current,
                   events, nextTerm>>
    /\ UNCHANGED nonRegVars

\* ssh_disconnect (connection.rs:310-329): the acknowledgement arrives; or the
\* reply channel is closed or 5 s pass, and the task is aborted. The terminals
\* taken are closed and the command returns.
SshDisconnectWait(p) ==
    /\ At(p, "disconnect", "wait")
    /\ \/ /\ Replied(p)
          /\ UNCHANGED <<actorPc, mailbox, current>>
       \/ /\ ~Replied(p)
          /\ actorPc' = AbortTask(actorPc, procs[p].actor)
          /\ mailbox' = DropMailbox(mailbox, procs[p].actor)
          /\ current' = DropCurrent(current, procs[p].actor)
    /\ Finish(p)
    /\ UNCHANGED <<connections, terminals, ptyActor, usedConnIds, events, nextTerm>>
    /\ UNCHANGED nonRegVars

\* terminal_create, first lock scope (terminal.rs:22-27); connection_not_found
\* returns without a change.
TerminalCreateGetSender(p, c) ==
    /\ Idle(p)
    /\ get_connection_sender(connections, c) # 0
    /\ Begin(p, "termCreate", "send", c, get_connection_sender(connections, c))
    /\ UNCHANGED <<connections, terminals, ptyActor, usedConnIds, actorPc, mailbox,
                   current, events, nextTerm>>
    /\ UNCHANGED nonRegVars

\* terminal_create (terminal.rs:29-36): CreatePty is sent, or the send fails.
TerminalCreateSend(p) ==
    /\ At(p, "termCreate", "send")
    /\ \/ /\ ActorEnded(procs[p].actor)
          /\ Finish(p)
          /\ UNCHANGED mailbox
       \/ Enqueue(p, "pty")
    /\ UNCHANGED <<connections, terminals, ptyActor, usedConnIds, actorPc, current,
                   events, nextTerm>>
    /\ UNCHANGED nonRegVars

\* terminal_create (terminal.rs:38-45): the reply is a PtySession, or it is an
\* error or the reply channel is closed and the command returns.
TerminalCreateAwait(p) ==
    /\ At(p, "termCreate", "wait")
    /\ \/ /\ procs[p].reply.st = "ok"
          /\ procs' = [procs EXCEPT ![p].pc = "add", ![p].term = procs[p].reply.term]
       \/ /\ procs[p].reply.st = "fatal"
          /\ Finish(p)
       \/ /\ ReplyClosed(p)
          /\ Finish(p)
    /\ UNCHANGED <<connections, terminals, ptyActor, usedConnIds, actorPc, mailbox,
                   current, events, nextTerm>>
    /\ UNCHANGED nonRegVars

\* terminal_create, second lock scope (terminal.rs:47-52).
TerminalCreateAdd(p) ==
    /\ At(p, "termCreate", "add")
    /\ terminals' = add_terminal(terminals, procs[p].term, procs[p].conn)
    /\ ptyActor' = [ptyActor EXCEPT ![procs[p].term] = procs[p].actor]
    /\ Finish(p)
    /\ UNCHANGED <<connections, usedConnIds, actorPc, mailbox, current, events,
                   nextTerm>>
    /\ UNCHANGED nonRegVars

\* terminal_close (terminal.rs:117-133), and terminal_write to a terminal whose
\* pump has ended (terminal.rs:71-77): the terminal is removed. The other
\* terminal_write and terminal_resize outcomes leave the registry as it is.
TerminalRemove(t) ==
    /\ terminals[t] # "none"
    /\ terminals' = remove_terminal(terminals, t)
    /\ ptyActor' = [ptyActor EXCEPT ![t] = 0]
    /\ UNCHANGED <<connections, usedConnIds, actorPc, mailbox, current, events,
                   nextTerm, procs>>
    /\ UNCHANGED nonRegVars

\* =====================================================================
\* Host-key store (ssh/known_hosts.rs) and SshConnection::connect (ssh/client.rs)
\* =====================================================================

NoEntry == <<>>

\* server_public_key.fingerprint(HashAlg::Sha256): distinct keys have distinct
\* fingerprints.
Fingerprint(k) == <<"SHA256", k>>
Fingerprints == {Fingerprint(k) : k \in Keys}

\* An SshError (or the Ok of a step) with the fingerprint it carries.
Err(kind) == [kind |-> kind, fp |-> NoEntry]
HostKeyErr(kind, fp) == [kind |-> kind, fp |-> fp]
NoError == Err("none")
Trusted == Err("trusted")
Connected == Err("connected")
HostKeyErrors == {"HostKeyUntrusted", "HostKeyMismatch"}
NoCheck == [key |-> 0, existing |-> NoEntry, verdict |-> "none"]

\* known_hosts::get, upsert, remove
known_hosts_get(store, t) == store[t]
known_hosts_upsert(store, t, fp) == [store EXCEPT ![t] = fp]
known_hosts_remove(store, t) == [store EXCEPT ![t] = NoEntry]

\* The mutation of check_server_key that trusts a server on first contact.
check_server_key_first_use(store, t, k) ==
    IF known_hosts_get(store, t) \in {NoEntry, Fingerprint(k)}
       THEN Trusted
       ELSE HostKeyErr("HostKeyMismatch", Fingerprint(k))

\* ClientHandler::check_server_key, once the store has answered.
check_server_key(store, t, k) ==
    LET existing == known_hosts_get(store, t)
        fingerprint == Fingerprint(k)
    IN  IF existing = NoEntry THEN HostKeyErr("HostKeyUntrusted", fingerprint)
        ELSE IF existing = fingerprint THEN Trusted
        ELSE HostKeyErr("HostKeyMismatch", fingerprint)

\* resolved.sort_by_key(V4 => 0, V6 => 1): a stable sort.
IsV4(a) == a % 2 = 0
IsV6(a) == ~IsV4(a)

\* A sort by family that is not stable: each family comes out reversed.
RECURSIVE Reversed(_)
Reversed(q) == IF q = <<>> THEN <<>> ELSE Append(Reversed(Tail(q)), Head(q))
SortV4FirstUnstable(q) == Reversed(SelectSeq(q, IsV4)) \o Reversed(SelectSeq(q, IsV6))

SortV4First(q) == SelectSeq(q, IsV4) \o SelectSeq(q, IsV6)

\* What lookup_host can yield: any list of distinct addresses, the empty one included.
Lookups == {q \in UNION {[1..n -> Addrs] : n \in 0..MaxAddrs} :
               \A i, j \in DOMAIN q : i # j => q[i] # q[j]}

\* `for attempt in 0..2`
AttemptsPerAddr == 2

ConnectInit ==
    /\ knownHosts = [t \in Targets |-> NoEntry]
    /\ connPc = "idle"
    /\ connTarget = "none"
    /\ resolved = <<>>
    /\ addrIdx = 0
    /\ attempt = 0
    /\ last_error = NoError
    /\ handle = 0
    /\ attempts = <<>>
    /\ hostKeyCheck = NoCheck
    /\ connResult = NoError

\* ssh_trust_host_key: the fingerprint given must be the one of the key given.
SshTrustHostKey(t, k, fp) ==
    /\ Fingerprint(k) = fp
    /\ knownHosts[t] # fp
    /\ knownHosts' = known_hosts_upsert(knownHosts, t, fp)
    /\ UNCHANGED <<connPc, connTarget, resolved, addrIdx, attempt, last_error,
                   handle, attempts, hostKeyCheck, connResult>>
    /\ UNCHANGED nonConnVars

\* ssh_forget_host_key
SshForgetHostKey(t) ==
    /\ knownHosts[t] # NoEntry
    /\ knownHosts' = known_hosts_remove(knownHosts, t)
    /\ UNCHANGED <<connPc, connTarget, resolved, addrIdx, attempt, last_error,
                   handle, attempts, hostKeyCheck, connResult>>
    /\ UNCHANGED nonConnVars

\* connect, up to the end of lookup_host (client.rs:369-380): the lookup fails,
\* or it yields a list of addresses, which `resolved` holds.
ResolveFrom(t, lookups) ==
    /\ connPc = "idle"
    /\ connTarget' = t
    /\ \/ /\ connResult' = Err("DnsLookupFailed")
          /\ connPc' = "done"
          /\ UNCHANGED resolved
       \/ \E q \in lookups :
             /\ resolved' = q
             /\ connPc' = "resolved"
             /\ UNCHANGED connResult
    /\ UNCHANGED <<knownHosts, addrIdx, attempt, last_error, handle, attempts,
                   hostKeyCheck>>
    /\ UNCHANGED nonConnVars

ConnectResolve(t) == ResolveFrom(t, Lookups)

\* The lookup of a host with up to three of four addresses, two of each family.
WideAddrs == {1, 2, 3, 4}
WideLookups == {q \in UNION {[1..n -> WideAddrs] : n \in 0..3} :
                   \A i, j \in DOMAIN q : i # j => q[i] # q[j]}
ConnectResolveWide == ResolveFrom("h1:22", WideLookups)

\* connect, from the lookup to the loops (client.rs:382-405): with no address
\* it returns; else `resolved` is sorted in place and the address loop starts.
ConnectSort ==
    /\ connPc = "resolved"
    /\ IF resolved = <<>>
          THEN /\ connResult' = Err("ConnectionFailed")
               /\ connPc' = "done"
               /\ UNCHANGED <<resolved, addrIdx>>
          ELSE /\ resolved' = SortV4First(resolved)
               /\ addrIdx' = 1
               /\ connPc' = "tcp"
               /\ UNCHANGED connResult
    /\ UNCHANGED <<knownHosts, connTarget, attempt, last_error, handle, attempts,
                   hostKeyCheck>>
    /\ UNCHANGED nonConnVars

\* The end of an iteration of the address loop (client.rs:727-737): with a handle
\* the loop is left; else the next address is tried; after the last address
\* connect returns last_error.
AfterAttempts(h, err) ==
    IF h # 0
       THEN /\ connPc' = "auth"
            /\ UNCHANGED <<addrIdx, attempt, connResult>>
       ELSE IF addrIdx < Len(resolved)
               THEN /\ addrIdx' = addrIdx + 1
                    /\ attempt' = 0
                    /\ connPc' = "tcp"
                    /\ UNCHANGED connResult
               ELSE /\ connPc' = "done"
                    /\ connResult' = IF err = NoError THEN Err("ConnectionFailed") ELSE err
                    /\ UNCHANGED <<addrIdx, attempt>>

\* A break that keeps the first error recorded.
BreakKeepingFirst(err) ==
    LET kept == IF last_error = NoError THEN err ELSE last_error IN
    /\ last_error' = kept
    /\ UNCHANGED handle
    /\ AfterAttempts(handle, kept)

\* last_error = Some(err); break
Break(err) ==
    /\ last_error' = err
    /\ UNCHANGED handle
    /\ AfterAttempts(handle, err)

\* A continue that leaves the inner loop.
ContinueAsBreak(err) ==
    /\ last_error' = err
    /\ UNCHANGED handle
    /\ AfterAttempts(handle, err)

\* last_error = Some(err); continue
Continue(err) ==
    /\ last_error' = err
    /\ UNCHANGED handle
    /\ IF attempt + 1 < AttemptsPerAddr
          THEN /\ attempt' = attempt + 1
               /\ connPc' = "tcp"
               /\ UNCHANGED <<addrIdx, connResult>>
          ELSE AfterAttempts(handle, err)

SetOutcome(log, out) == [log EXCEPT ![Len(log)].out = out]

\* One TCP connect under its 8 s timeout (client.rs:458-526).
ConnectTcp ==
    /\ connPc = "tcp"
    /\ \E out \in {"handshaking", "TcpConnectFailed", "TcpConnectTimeout"} :
          /\ attempts' = Append(attempts, [addr |-> resolved[addrIdx],
                                           attempt |-> attempt, out |-> out])
          /\ IF out = "handshaking"
                THEN /\ connPc' = "handshake"
                     /\ UNCHANGED <<addrIdx, attempt, last_error, handle, connResult>>
                ELSE Break(Err(out))
    /\ UNCHANGED <<knownHosts, connTarget, resolved, hostKeyCheck>>
    /\ UNCHANGED nonConnVars

\* client::connect_stream (client.rs:547-724), with the server presenting key k:
\* the key is checked against the store; or the store cannot be read, the
\* handshake task is aborted, or the handshake fails otherwise.
ConnectHandshake ==
    /\ connPc = "handshake"
    /\ \/ \E k \in Keys :
             LET verdict == check_server_key(knownHosts, connTarget, k) IN
             /\ hostKeyCheck' = [key |-> k, existing |-> knownHosts[connTarget],
                                 verdict |-> verdict.kind]
             /\ attempts' = SetOutcome(attempts, verdict.kind)
             /\ IF verdict = Trusted
                   THEN /\ handle' = resolved[addrIdx]
                        /\ UNCHANGED last_error
                        /\ AfterAttempts(resolved[addrIdx], last_error)
                   ELSE Break(verdict)
       \/ /\ attempts' = SetOutcome(attempts, "ConnectionFailed")
          /\ Break(Err("ConnectionFailed"))
          /\ UNCHANGED hostKeyCheck
       \/ /\ attempts' = SetOutcome(attempts, "HandshakeJoinAborted")
          /\ Continue(Err("HandshakeJoinAborted"))
          /\ UNCHANGED hostKeyCheck
       \/ /\ attempts' = SetOutcome(attempts, "HandshakeFailed")
          /\ Break(Err("HandshakeFailed"))
          /\ UNCHANGED hostKeyCheck
    /\ UNCHANGED <<knownHosts, connTarget, resolved>>
    /\ UNCHANGED nonConnVars

\* Authentication (client.rs:739-798).
ConnectAuth ==
    /\ connPc = "auth"
    /\ connPc' = "done"
    /\ connResult' \in {Connected, Err("AuthenticationFailed")}
    /\ UNCHANGED <<knownHosts, connTarget, resolved, addrIdx, attempt, last_error,
                   handle, attempts, hostKeyCheck>>
    /\ UNCHANGED nonConnVars

\* connect has returned; the next call starts afresh.
ConnectReturn ==
    /\ connPc = "done"
    /\ connPc' = "idle"
    /\ connTarget' = "none"
    /\ resolved' = <<>>
    /\ addrIdx' = 0
    /\ attempt' = 0
    /\ last_error' = NoError
    /\ handle' = 0
    /\ attempts' = <<>>
    /\ hostKeyCheck' = NoCheck
    /\ connResult' = NoError
    /\ UNCHANGED knownHosts
    /\ UNCHANGED nonConnVars

\* =====================================================================
\* The SFTP facade of SshConnection (ssh/client.rs)
\* =====================================================================

SftpKinds == {"GetHomeDir", "ListDir", "ReadFileWithStat", "ReadFile", "WriteFile",
              "Stat", "CreateFile", "CreateDir", "Delete", "Rename"}

\* SftpSession::new_opts(stream, Some(180)): the response timeout of a request.
SFTP_RESPONSE_TIMEOUT == 180

\* The awaited calls of each X_once after ensure_sftp, in order.
Script(kind) ==
    CASE kind = "GetHomeDir" -> <<"canonicalize">>
      [] kind = "ListDir" -> <<"read_dir">>
      [] kind = "ReadFileWithStat" -> <<"open", "read_to_end", "metadata", "from_utf8">>
      [] kind = "ReadFile" -> <<"open", "read_to_end", "from_utf8">>
      [] kind = "WriteFile" -> <<"create", "write_all">>
      [] kind = "Stat" -> <<"metadata">>
      [] kind = "CreateFile" -> <<"create">>
      [] kind = "CreateDir" -> <<"create_dir">>
      [] kind = "Delete" -> <<"remove_file", "remove_dir">>
      [] kind = "Rename" -> <<"rename">>

\* The calls whose error goes through map_sftp_error; the error of the others
\* becomes SftpError whatever it is.
Mapped(call) == call \notin {"read_to_end", "write_all", "from_utf8"}
\* The calls that go to the server.
Remote(call) == call # "from_utf8"

Stalls == {0, StallShort, StallLong}
Answers == {"Ok", "SessionClosed", "Other"}

\* What a call to the server yields and when: the answer after the stall, or
\* Timeout once the response timeout has passed.
Outcome(stall, answer) == IF stall >= SFTP_RESPONSE_TIMEOUT THEN "Timeout" ELSE answer
Duration(stall) == IF stall >= SFTP_RESPONSE_TIMEOUT THEN SFTP_RESPONSE_TIMEOUT ELSE stall

\* map_sftp_error
map_sftp_error(error) ==
    CASE error = "Timeout" -> "SftpTimeout"
      [] error = "SessionClosed" -> "SftpSessionClosed"
      [] OTHER -> "SftpError"

\* The mutation of the facade's pattern that retries after any error.
IsError(result) == result # "Ok"

\* The pattern `Err(SshError::SftpTimeout | SshError::SftpSessionClosed)` of the facade.
IsTransient(result) == result \in {"SftpTimeout", "SftpSessionClosed"}

\* SshConnection::reset_sftp: self.sftp = None
reset_sftp(session) == FALSE

IdleOp == [kind |-> "none", pc |-> "idle", attempt |-> 0, pos |-> 0,
           first |-> "none", second |-> "none", result |-> "none",
           recycles |-> 0, cleared |-> FALSE, opens |-> 0]

\* X_once starts: ensure_sftp returns the cached session or goes to open one.
StartOnce(o, session) ==
    IF session THEN [o EXCEPT !.pc = "call", !.pos = 1]
               ELSE [o EXCEPT !.pc = "ensure", !.pos = 0]

\* A facade operation is called: its first X_once starts.
BeginOp(kind, session) ==
    StartOnce([IdleOp EXCEPT !.kind = kind, !.attempt = 1], session)

\* X_once returned `result`: the match of the facade operation.
OnceEnds(o, session, result) ==
    IF o.attempt = 1
       THEN IF IsTransient(result)
               THEN [op |-> StartOnce([o EXCEPT !.first = result, !.attempt = 2,
                                                !.recycles = @ + 1,
                                                !.cleared = ~reset_sftp(session)],
                                      reset_sftp(session)),
                     sftp |-> reset_sftp(session)]
               ELSE [op |-> [o EXCEPT !.first = result, !.result = result, !.pc = "done"],
                     sftp |-> session]
       ELSE [op |-> [o EXCEPT !.second = result, !.result = result, !.pc = "done"],
             sftp |-> session]

\* ensure_sftp without a cached session (client.rs:805-837): the session is
\* opened and cached, or the channel cannot be opened (ChannelError), or the
\* subsystem or the session cannot be started (SftpError).
EnsureEvents == {"Ok", "ChannelError", "SftpError"}
EnsureStep(o, session, ev) ==
    IF ev = "Ok"
       THEN [op |-> [o EXCEPT !.pc = "call", !.pos = 1, !.opens = @ + 1], sftp |-> TRUE]
       ELSE OnceEnds(o, session, ev)

\* A delete_once that gives up when remove_file fails.
CallStepFileOnly(o, session, ev) ==
    LET script == Script(o.kind)
        call == script[o.pos]
    IN  IF ev = "Ok"
           THEN IF o.pos < Len(script) /\ call # "remove_file"
                   THEN [op |-> [o EXCEPT !.pos = @ + 1], sftp |-> session]
                   ELSE OnceEnds(o, session, "Ok")
        ELSE OnceEnds(o, session, IF Mapped(call) THEN map_sftp_error(ev) ELSE "SftpError")

\* The pending call of X_once returns `ev`.
CallStep(o, session, ev) ==
    LET script == Script(o.kind)
        call == script[o.pos]
    IN  IF call = "remove_file"
           THEN IF ev = "Ok" THEN OnceEnds(o, session, "Ok")
                             ELSE [op |-> [o EXCEPT !.pos = @ + 1], sftp |-> session]
        ELSE IF ev = "Ok"
           THEN IF o.pos < Len(script)
                   THEN [op |-> [o EXCEPT !.pos = @ + 1], sftp |-> session]
                   ELSE OnceEnds(o, session, "Ok")
        ELSE OnceEnds(o, session, IF Mapped(call) THEN map_sftp_error(ev) ELSE "SftpError")

PendingCall(o) == Script(o.kind)[o.pos]

\* The events the pending await of X_once can end with: the result, the seconds
\* it takes and the stall of the server behind it. A call to the server has the
\* response timeout; opening the channel has none.
PendingEvents(o) ==
    IF o.pc = "ensure"
       THEN {[ev |-> e, after |-> stall, stall |-> stall] :
                e \in EnsureEvents, stall \in Stalls}
    ELSE IF Remote(PendingCall(o))
       THEN {[ev |-> Outcome(stall, answer), after |-> Duration(stall), stall |-> stall] :
                stall \in Stalls, answer \in Answers}
    ELSE {[ev |-> e, after |-> 0, stall |-> 0] : e \in {"Ok", "Other"}}

\* The pending await of X_once ends with `ev`.
StepOp(o, session, ev) ==
    IF o.pc = "ensure" THEN EnsureStep(o, session, ev) ELSE CallStep(o, session, ev)

Bump(n) == IF n < HistCap THEN n + 1 ELSE n

FacadeInit ==
    /\ sftp = FALSE
    /\ op = IdleOp
    /\ hist = [timeouts |-> 0, failures |-> 0, recycles |-> 0, retries |-> 0,
               errors |-> 0]

\* A facade operation is called directly on the connection, as ssh_connect does
\* for its probe (connection.rs:170).
FacadeInvoke(kind) ==
    /\ op.pc = "idle"
    /\ loopPc = "start"
    /\ op' = BeginOp(kind, sftp)
    /\ UNCHANGED <<sftp, hist>>
    /\ UNCHANGED nonFacadeVars

\* The pending await of the running X_once ends.
FacadeStep ==
    /\ op.pc \in {"ensure", "call"}
    /\ loopPc = "start"
    /\ \E e \in PendingEvents(op) :
          LET next == StepOp(op, sftp, e.ev) IN
          /\ op' = next.op
          /\ sftp' = next.sftp
          /\ hist' = [hist EXCEPT
                         !.timeouts = IF e.ev = "Timeout" THEN Bump(@) ELSE @,
                         !.failures = IF e.ev = "Ok" THEN @ ELSE Bump(@),
                         !.recycles = IF next.op.recycles > op.recycles THEN Bump(@) ELSE @,
                         !.retries = IF next.op.attempt > op.attempt THEN Bump(@) ELSE @]
    /\ UNCHANGED nonFacadeVars

\* The facade operation returns its result to the caller.
FacadeReturn ==
    /\ op.pc = "done"
    /\ loopPc = "start"
    /\ op' = IdleOp
    /\ hist' = [hist EXCEPT !.errors = IF op.result = "Ok" THEN @ ELSE Bump(@)]
    /\ UNCHANGED sftp
    /\ UNCHANGED nonFacadeVars

\* ---------------------------------------------------------------------
\* SshConnection::delete called directly, with its awaited calls written down
\* ---------------------------------------------------------------------

DeleteInit ==
    /\ deleteLog = <<>>
    /\ deleteCalls = 0

\* delete(path) is called (client.rs:1071).
DeleteInvoke ==
    /\ op.pc = "idle"
    /\ deleteCalls < MaxDeletes
    /\ deleteCalls' = deleteCalls + 1
    /\ op' = BeginOp("Delete", sftp)
    /\ deleteLog' = <<>>
    /\ UNCHANGED sftp
    /\ UNCHANGED nonDeleteVars

\* The pending await of delete_once ends (client.rs:1082-1094).
DeleteStep ==
    /\ op.pc \in {"ensure", "call"}
    /\ \E e \in PendingEvents(op) :
          LET next == StepOp(op, sftp, e.ev) IN
          /\ op' = next.op
          /\ sftp' = next.sftp
          /\ deleteLog' = Append(deleteLog,
                 [attempt |-> op.attempt,
                  call |-> IF op.pc = "ensure" THEN "ensure_sftp" ELSE PendingCall(op),
                  ev |-> e.ev])
    /\ UNCHANGED deleteCalls
    /\ UNCHANGED nonDeleteVars

\* delete returns its result to the caller.
DeleteReturn ==
    /\ op.pc = "done"
    /\ op' = IdleOp
    /\ UNCHANGED <<sftp, deleteLog, deleteCalls>>
    /\ UNCHANGED nonDeleteVars

\* =====================================================================
\* The connection actor at the grain of its requests (ssh/actor.rs)
\* =====================================================================

RequestKinds == SftpKinds \cup {"Disconnect"}

LIST_DIR_TIMEOUT == 45
READ_FILE_TIMEOUT == 60
READ_FILE_WITH_STAT_TIMEOUT == 75
WRITE_FILE_TIMEOUT == 60
STAT_TIMEOUT == 30
MUTATION_TIMEOUT == 30

\* The timeout each arm of the loop wraps its facade call in.
OpTimeout(kind) ==
    CASE kind \in {"GetHomeDir", "Stat"} -> STAT_TIMEOUT
      [] kind = "ListDir" -> LIST_DIR_TIMEOUT
      [] kind = "ReadFile" -> READ_FILE_TIMEOUT
      [] kind = "ReadFileWithStat" -> READ_FILE_WITH_STAT_TIMEOUT
      [] kind = "WriteFile" -> WRITE_FILE_TIMEOUT
      [] OTHER -> MUTATION_TIMEOUT

\* The mutation of is_fatal_connection_error that holds every error fatal.
is_fatal_always(error) == TRUE

\* The mutation of is_fatal_connection_error that holds no error fatal.
is_fatal_never(error) == FALSE

\* is_fatal_connection_error
is_fatal_connection_error(error) ==
    error \notin {"SftpTimeout", "SftpSessionClosed", "SftpError"}

\* A path is the sequence of its characters. The paths of the requests of the
\* actor specification: one directory, a file in it and a second name in it.
DirPath == <<"/", "d">>
FilePath == <<"/", "d", "/", "f">>
NewPath == <<"/", "d", "/", "g">>

\* str::trim_end_matches('/')
RECURSIVE trim_end_matches(_)
trim_end_matches(path) ==
    IF path # <<>> /\ path[Len(path)] = "/"
       THEN trim_end_matches(SubSeq(path, 1, Len(path) - 1))
       ELSE path

\* A key that keeps the trailing slashes of the path.
untrimmed_dir_path(path) == path

\* normalize_dir_path
normalize_dir_path(path) ==
    IF path = <<"/">> THEN <<"/">> ELSE trim_end_matches(path)

\* path.split('/').filter(|p| !p.is_empty()): the non-empty segments, in order.
RECURSIVE split_nonempty(_, _)
split_nonempty(path, segment) ==
    IF path = <<>>
       THEN IF segment = <<>> THEN <<>> ELSE <<segment>>
    ELSE IF Head(path) = "/"
       THEN (IF segment = <<>> THEN <<>> ELSE <<segment>>) \o split_nonempty(Tail(path), <<>>)
    ELSE split_nonempty(Tail(path), Append(segment, Head(path)))

\* format!("/{}", parts.join("/"))
RECURSIVE join_rooted(_)
join_rooted(parts) ==
    IF parts = <<>> THEN <<>>
    ELSE IF Len(parts) = 1 THEN <<"/">> \o parts[1]
    ELSE <<"/">> \o parts[1] \o join_rooted(Tail(parts))

\* parent_dir: an Option, here the set of at most one path.
parent_dir(path) ==
    LET normalized == normalize_dir_path(path)
        parts == split_nonempty(normalized, <<>>)
        popped == IF parts = <<>> THEN <<>> ELSE SubSeq(parts, 1, Len(parts) - 1)
    IN  IF normalized = <<"/">> THEN {}
        ELSE IF popped = <<>> THEN {<<"/">>}
        ELSE {join_rooted(popped)}

\* DirectoryCache::get (of an entry within its TTL), put, invalidate*
cache_get(cache, key) == key \in cache
cache_put(cache, key) == cache \cup {key}
invalidate(cache, key) == cache \ {key}
invalidate_parent_of_path(cache, path) == cache \ parent_dir(path)
invalidate_path_and_parent(cache, path) ==
    invalidate_parent_of_path(invalidate(cache, normalize_dir_path(path)), path)

\* The mutation of the cache maintenance in which reading a file invalidates the
\* listing of its directory too.
CacheAfterAnyRequest(kind, cache) ==
    CASE kind = "ListDir" -> cache_put(cache, normalize_dir_path(DirPath))
      [] kind = "Delete" -> invalidate_path_and_parent(cache, FilePath)
      [] kind = "Rename" ->
            invalidate_parent_of_path(invalidate_parent_of_path(cache, FilePath), NewPath)
      [] OTHER -> invalidate_parent_of_path(cache, FilePath)

\* What a successful request does to the directory cache.
CacheAfter(kind, cache) ==
    CASE kind = "ListDir" -> cache_put(cache, normalize_dir_path(DirPath))
      [] kind \in {"WriteFile", "CreateFile", "CreateDir"} ->
            invalidate_parent_of_path(cache, FilePath)
      [] kind = "Delete" -> invalidate_path_and_parent(cache, FilePath)
      [] kind = "Rename" ->
            invalidate_parent_of_path(invalidate_parent_of_path(cache, FilePath), NewPath)
      [] OTHER -> cache

NoReq == [id |-> 0, kind |-> "none"]
NoLast == [id |-> 0, kind |-> "none", res |-> "none", expired |-> FALSE,
           stalls |-> {}, attempts |-> 0, opens |-> 0, cached |-> FALSE]

ActorInit ==
    /\ loopPc = "start"
    /\ rx = <<>>
    /\ request = NoReq
    /\ inflight = {}
    /\ replies = <<>>
    /\ last = NoLast
    /\ nextReq = 0
    /\ elapsed = 0
    /\ expiredIds = {}
    /\ dir_cache = {}
    /\ statusEvents = <<>>

\* The mutation of the loop that takes a request whatever it is doing.
ActorAlways == TRUE

\* The loop is at rx.recv().
ActorIdle == loopPc = "waiting"

\* The mutation of the mailbox that yields the newest request.
LastRequest(q) == q[Len(q)]

\* What rx.recv() yields.
NextRequest(q) == Head(q)

\* spawn_connection_actor on the connection ssh_connect has probed
\* (connection.rs:170-193), and the first poll of the task (actor.rs:93-110):
\* the probe left a session cached; "connected" is emitted.
ActorLoopStart ==
    /\ loopPc = "start"
    /\ op.pc = "idle"
    /\ sftp' = TRUE
    /\ loopPc' = "waiting"
    /\ statusEvents' = Append(statusEvents, "connected")
    /\ UNCHANGED <<op, rx, request, inflight, replies, last, nextReq, elapsed,
                   expiredIds, dir_cache>>
    /\ UNCHANGED nonActorVars

\* A command sends a request (tx.send): it enters the mailbox.
Send(kind) ==
    /\ loopPc \in {"waiting", "busy"}
    /\ nextReq < MaxReq
    /\ nextReq' = nextReq + 1
    /\ rx' = Append(rx, [id |-> nextReq + 1, kind |-> kind])
    /\ UNCHANGED <<sftp, op, loopPc, request, inflight, replies, last, elapsed,
                   expiredIds, dir_cache, statusEvents>>
    /\ UNCHANGED nonActorVars

\* The request in hand is answered with `result` (respond_to.send) after the
\* facade call `o`; a fatal error ends the loop (actor.rs:379-400).
Complete(result, o, expired, stalls, cached) ==
    /\ replies' = Append(replies, request.id)
    /\ last' = [id |-> request.id, kind |-> request.kind, res |-> result,
                expired |-> expired, stalls |-> stalls, attempts |-> o.attempt,
                opens |-> o.opens, cached |-> cached]
    /\ expiredIds' = IF expired THEN expiredIds \cup {request.id} ELSE expiredIds
    /\ dir_cache' = IF result = "Ok" THEN CacheAfter(request.kind, dir_cache)
                                     ELSE dir_cache
    /\ request' = NoReq
    /\ inflight' = inflight \ {request.id}
    /\ op' = IdleOp
    /\ elapsed' = 0
    /\ IF result # "Ok" /\ is_fatal_connection_error(result)
          THEN /\ loopPc' = "exited"
               /\ statusEvents' = Append(statusEvents, "disconnected")
               /\ rx' = <<>>
          ELSE /\ loopPc' = "waiting"
               /\ UNCHANGED <<statusEvents, rx>>

\* rx.recv() yields a request (actor.rs:112-148): a ListDir of a cached path is
\* answered from the cache at once; Disconnect goes to connection.disconnect();
\* any other request calls its facade operation under its timeout.
ActorTakeRequest ==
    /\ ActorIdle
    /\ rx # <<>>
    /\ LET r == NextRequest(rx) IN
       /\ rx' = Tail(rx)
       /\ IF r.kind = "ListDir" /\ cache_get(dir_cache, normalize_dir_path(DirPath))
             THEN /\ replies' = Append(replies, r.id)
                  /\ last' = [NoLast EXCEPT !.id = r.id, !.kind = r.kind, !.res = "Ok",
                                            !.cached = TRUE]
                  /\ UNCHANGED <<op, loopPc, request, inflight, elapsed>>
          ELSE IF r.kind = "Disconnect"
             THEN /\ request' = r
                  /\ loopPc' = "busy"
                  /\ UNCHANGED <<op, inflight, replies, last, elapsed>>
             ELSE /\ request' = r
                  /\ loopPc' = "busy"
                  /\ inflight' = inflight \cup {r.id}
                  /\ op' = BeginOp(r.kind, sftp)
                  /\ elapsed' = 0
                  /\ UNCHANGED <<replies, last>>
    /\ UNCHANGED <<sftp, nextReq, expiredIds, dir_cache, statusEvents>>
    /\ UNCHANGED nonActorVars

\* The pending await of the facade call ends before the timeout of the request;
\* when it ends the facade call, the request is answered.
ActorStep ==
    /\ loopPc = "busy"
    /\ op.pc \in {"ensure", "call"}
    /\ \E e \in PendingEvents(op) :
          /\ elapsed + e.after < OpTimeout(request.kind)
          /\ LET next == StepOp(op, sftp, e.ev) IN
             /\ sftp' = next.sftp
             /\ IF next.op.pc = "done"
                   THEN Complete(next.op.result, next.op, FALSE, {}, FALSE)
                   ELSE /\ op' = next.op
                        /\ elapsed' = elapsed + e.after
                        /\ UNCHANGED <<loopPc, rx, request, inflight, replies, last,
                                       expiredIds, dir_cache, statusEvents>>
    /\ UNCHANGED nextReq
    /\ UNCHANGED nonActorVars

\* The timeout of the request expires while an await of the facade call is
\* pending: the call is dropped, reset_sftp is called and the answer is SftpTimeout.
ActorDeadline ==
    /\ loopPc = "busy"
    /\ op.pc \in {"ensure", "call"}
    /\ \E e \in PendingEvents(op) :
          /\ elapsed + e.after >= OpTimeout(request.kind)
          /\ sftp' = reset_sftp(sftp)
          /\ Complete("SftpTimeout", op, TRUE,
                      IF e.stall = StallLong THEN {op.attempt} ELSE {}, FALSE)
    /\ UNCHANGED nextReq
    /\ UNCHANGED nonActorVars

\* Disconnect (actor.rs:371-376, client.rs:1149-1158): the session handle is
\* dropped, the transport is closed, the request is answered and the loop is left.
ActorDisconnect ==
    /\ loopPc = "busy"
    /\ request.kind = "Disconnect"
    /\ sftp' = reset_sftp(sftp)
    /\ \E result \in {"Ok", "ConnectionFailed"} :
          /\ replies' = Append(replies, request.id)
          /\ last' = [NoLast EXCEPT !.id = request.id, !.kind = request.kind,
                                    !.res = result]
    /\ request' = NoReq
    /\ loopPc' = "exited"
    /\ statusEvents' = Append(statusEvents, "disconnected")
    /\ rx' = <<>>
    /\ UNCHANGED <<op, inflight, nextReq, elapsed, expiredIds, dir_cache>>
    /\ UNCHANGED nonActorVars

\* CreatePty (actor.rs:348-370), sent to an actor that waits on an empty
\* mailbox: create_pty_session runs under PTY_TIMEOUT, a timeout becomes a
\* ChannelError, the result is sent, and a fatal error ends the loop.
ActorCreatePty ==
    /\ ActorIdle
    /\ rx = <<>>
    /\ nextReq < MaxReq
    /\ nextReq' = nextReq + 1
    /\ \E result \in {"Ok", "ChannelError"} :
          /\ replies' = Append(replies, nextReq + 1)
          /\ last' = [NoLast EXCEPT !.id = nextReq + 1, !.kind = "CreatePty",
                                    !.res = result]
          /\ IF result # "Ok" /\ is_fatal_connection_error(result)
                THEN /\ loopPc' = "exited"
                     /\ statusEvents' = Append(statusEvents, "disconnected")
                ELSE UNCHANGED <<loopPc, statusEvents>>
    /\ UNCHANGED <<sftp, op, rx, request, inflight, elapsed, expiredIds, dir_cache>>
    /\ UNCHANGED nonActorVars

\* An entry of the directory cache outlives DIR_CACHE_TTL: get no longer yields it.
CacheEntryExpires ==
    /\ loopPc \in {"waiting", "busy"}
    /\ \E key \in dir_cache : dir_cache' = invalidate(dir_cache, key)
    /\ UNCHANGED <<sftp, op, loopPc, rx, request, inflight, replies, last, nextReq,
                   elapsed, expiredIds, statusEvents>>
    /\ UNCHANGED nonActorVars

\* =====================================================================
\* The directory cache of the actor, with its clock (ssh/actor.rs)
\* =====================================================================

DIR_CACHE_TTL == 10
DIR_CACHE_MAX_ENTRIES == 128

\* The paths a request can name: the root, a directory and an entry in it, each
\* absolute and relative to the login directory, and the directory with a
\* trailing slash.
Paths == {<<"/">>, <<"/", "a">>, <<"/", "a", "/">>, <<"/", "a", "/", "a">>,
          <<"a">>, <<"a", "/", "a">>}
NoPath == <<>>

\* The requests that change the remote file system.
MutationKinds == {"WriteFile", "CreateFile", "CreateDir", "Delete", "Rename"}

\* The mutation of the TTL test that leaves out the boundary.
younger_than_ttl(created_at, t) == t - created_at < DIR_CACHE_TTL

\* now.duration_since(*created_at) <= self.ttl
within_ttl(created_at, t) == t - created_at <= DIR_CACHE_TTL

\* HashMap::remove and HashMap::insert on a map with the given keys
map_remove(es, key) == [k \in DOMAIN es \ {key} |-> es[k]]
map_insert(es, key, value) ==
    [k \in DOMAIN es \cup {key} |-> IF k = key THEN value ELSE es[k]]

\* DirectoryCache::get at time t: the stored vector of an entry within its TTL;
\* an older entry is removed. `some` tells Some from None, `cache` is the map
\* afterwards.
DirectoryCache_get(es, path, t) ==
    IF path \in DOMAIN es /\ within_ttl(es[path].created_at, t)
       THEN [some |-> TRUE, value |-> es[path].entries, cache |-> es]
       ELSE [some |-> FALSE, value |-> 0, cache |-> map_remove(es, path)]

\* DirectoryCache::evict_if_needed: while the map is over capacity an entry of
\* the least created_at is removed; which one among equals is the map's
\* iteration order, so every outcome is given.
RECURSIVE evict_if_needed(_, _)
evict_if_needed(es, max_entries) ==
    IF Cardinality(DOMAIN es) <= max_entries
       THEN {es}
       ELSE LET oldest == {k \in DOMAIN es :
                              \A j \in DOMAIN es : es[k].created_at <= es[j].created_at}
            IN  UNION {evict_if_needed(map_remove(es, k), max_entries) : k \in oldest}

\* A put that, over capacity, keeps any max_entries of the entries.
put_evicting_any(es, path, listing, t, max_entries) ==
    LET inserted == map_insert(es, path, [created_at |-> t, entries |-> listing]) IN
    IF Cardinality(DOMAIN inserted) <= max_entries
       THEN {inserted}
       ELSE {[k \in kept |-> inserted[k]] :
                kept \in {d \in SUBSET DOMAIN inserted : Cardinality(d) = max_entries}}

\* DirectoryCache::put at time t
DirectoryCache_put(es, path, listing, t, max_entries) ==
    evict_if_needed(map_insert(es, path, [created_at |-> t, entries |-> listing]),
                    max_entries)

\* DirectoryCache::invalidate, invalidate_parent_of_path, invalidate_path_and_parent
DirectoryCache_invalidate(es, path) == map_remove(es, path)
DirectoryCache_invalidate_parent_of_path(es, path) ==
    [k \in DOMAIN es \ parent_dir(path) |-> es[k]]
DirectoryCache_invalidate_path_and_parent(es, path) ==
    DirectoryCache_invalidate_parent_of_path(
        DirectoryCache_invalidate(es, normalize_dir_path(path)), path)

\* What the arm of a successful mutation does to the cache.
InvalidateAfter(kind, es, path, new_path) ==
    CASE kind = "Delete" -> DirectoryCache_invalidate_path_and_parent(es, path)
      [] kind = "Rename" ->
            DirectoryCache_invalidate_parent_of_path(
                DirectoryCache_invalidate_parent_of_path(es, path), new_path)
      [] OTHER -> DirectoryCache_invalidate_parent_of_path(es, path)

NoCacheReq == [kind |-> "none", path |-> NoPath, new_path |-> NoPath,
               result |-> "none", had |-> FALSE, age |-> 0, stored |-> 0,
               hit |-> FALSE, fetched |-> FALSE, reply |-> 0, evicted |-> {}]

\* DirectoryCache::new on a fresh actor; the remote file system is in its first state.
CacheInit ==
    /\ entries = <<>>
    /\ now = 0
    /\ serverVer = 1
    /\ cacheOps = 0
    /\ lastReq = NoCacheReq

\* The ListDir arm (actor.rs:164-186): a cached listing within its TTL is the
\* answer and the connection is not used; otherwise connection.list_dir is
\* called, and its listing is stored when it succeeds.
ListDirArm(path, max_entries) ==
    /\ cacheOps < MaxCacheOps
    /\ cacheOps' = cacheOps + 1
    /\ LET cache_key == normalize_dir_path(path)
           had == cache_key \in DOMAIN entries
           seen == [NoCacheReq EXCEPT
                       !.kind = "ListDir", !.path = path, !.had = had,
                       !.age = IF had THEN now - entries[cache_key].created_at ELSE 0,
                       !.stored = IF had THEN entries[cache_key].entries ELSE 0]
           got == DirectoryCache_get(entries, cache_key, now)
       IN  IF got.some
              THEN /\ entries' = got.cache
                   /\ lastReq' = [seen EXCEPT !.result = "Ok", !.hit = TRUE,
                                              !.reply = got.value]
              ELSE \E result \in {"Ok", "SftpError"} :
                      IF result = "Ok"
                         THEN /\ entries' \in DirectoryCache_put(got.cache, cache_key,
                                                  serverVer, now, max_entries)
                              /\ lastReq' = [seen EXCEPT !.result = "Ok",
                                                !.fetched = TRUE, !.reply = serverVer,
                                                !.evicted = (DOMAIN got.cache
                                                             \cup {cache_key})
                                                            \ DOMAIN entries']
                         ELSE /\ entries' = got.cache
                              /\ lastReq' = [seen EXCEPT !.result = result,
                                                         !.fetched = TRUE]
    /\ UNCHANGED <<now, serverVer>>

\* The ListDir arm on the cache alone.
ListDirWith(path, max_entries) ==
    /\ ListDirArm(path, max_entries)
    /\ UNCHANGED nonCacheVars

\* ListDir on the cache of the actor: DirectoryCache::new(DIR_CACHE_TTL,
\* DIR_CACHE_MAX_ENTRIES) (actor.rs:94).
CacheListDir(path) == ListDirWith(path, DIR_CACHE_MAX_ENTRIES)

\* ListDir on a cache of the capacity ScaledMaxEntries.
CacheListDirScaled(path) == ListDirWith(path, ScaledMaxEntries)

\* The paths of SpecKeys: the spellings of the root, of a directory and of
\* the login directory (the empty path), with and without trailing slashes.
Spellings == {<<>>, <<"/">>, <<"/", "/">>, <<"a">>, <<"a", "/">>, <<"/", "a">>,
              <<"/", "a", "/">>, <<"/", "a", "/", "/">>}

KeysInit == cachedAs = <<>>

\* ListDir on the cache of the actor, with the path that stored each entry
\* written down.
KeysListDir(path) ==
    /\ ListDirArm(path, DIR_CACHE_MAX_ENTRIES)
    /\ cachedAs' = [k \in DOMAIN entries' |->
                       IF k \in DOMAIN entries /\ entries'[k] = entries[k]
                          THEN cachedAs[k] ELSE path]
    /\ UNCHANGED nonKeysVars

\* The arms of WriteFile, CreateFile, CreateDir, Delete and Rename
\* (actor.rs:224-347): the facade operation is called; when it succeeds the
\* remote file system has changed and the cache is invalidated.
CacheMutate(kind, path, new_path) ==
    /\ cacheOps < MaxCacheOps
    /\ cacheOps' = cacheOps + 1
    /\ \E result \in {"Ok", "SftpError"} :
          /\ lastReq' = [NoCacheReq EXCEPT !.kind = kind, !.path = path,
                                           !.new_path = new_path,
                                           !.result = result, !.fetched = TRUE]
          /\ IF result = "Ok"
                THEN /\ entries' = InvalidateAfter(kind, entries, path, new_path)
                     /\ serverVer' = serverVer + 1
                ELSE UNCHANGED <<entries, serverVer>>
    /\ UNCHANGED now
    /\ UNCHANGED nonCacheVars

\* Time passes between two requests.
ClockAdvances ==
    /\ now + CacheTick <= MaxNow
    /\ now' = now + CacheTick
    /\ UNCHANGED <<entries, serverVer, cacheOps, lastReq>>
    /\ UNCHANGED nonCacheVars

\* =====================================================================
\* The operations of AppState called directly (state.rs)
\* =====================================================================

NoCall == [fn |-> "none", id |-> "none", before |-> AppState(<<>>, <<>>), taken |-> {}]

\* AppState::new
StateInit ==
    /\ appState = AppState([c \in ConnIds |-> 0], [t \in TermIds |-> "none"])
    /\ lastCall = NoCall

Called(fn, id, taken) ==
    lastCall' = [fn |-> fn, id |-> id, before |-> appState, taken |-> taken]

StateAddConnection(c, h) ==
    /\ appState' = [appState EXCEPT
                       !.connections = add_connection(appState.connections, c, h)]
    /\ Called("add_connection", c, {})
    /\ UNCHANGED nonStateVars

StateRemoveConnection(c) ==
    /\ appState' = remove_connection(appState, c)
    /\ Called("remove_connection", c, {})
    /\ UNCHANGED nonStateVars

\* add_terminal of a PtySession whose connection_id is c
StateAddTerminal(t, c) ==
    /\ appState' = [appState EXCEPT
                       !.terminals = add_terminal(appState.terminals, t, c)]
    /\ Called("add_terminal", c, {})
    /\ UNCHANGED nonStateVars

StateRemoveTerminal(t) ==
    /\ appState' = [appState EXCEPT
                       !.terminals = remove_terminal(appState.terminals, t)]
    /\ Called("remove_terminal", appState.terminals[t], {})
    /\ UNCHANGED nonStateVars

StateTakeTerminals(c) ==
    /\ appState' = [appState EXCEPT
                       !.terminals = take_terminals_for_connection(appState.terminals, c)]
    /\ Called("take_terminals_for_connection", c, TerminalsOf(appState.terminals, c))
    /\ UNCHANGED nonStateVars

\* =====================================================================
\* One PTY session: the pump task (ssh/pty.rs) and the terminal commands
\* (commands/terminal.rs), which run under the registry mutex
\* =====================================================================

IdleTermCmd == [cmd |-> "idle", pc |-> "idle"]

\* PtySession::new on a terminal that terminal_create has registered: the pump
\* is in its select loop and the command channel is empty.
PtyInit ==
    /\ ptyRegistered = TRUE
    /\ cmd_rx = <<>>
    /\ pumpPc = "select"
    /\ stateLock = 0
    /\ termCmd = [p \in Procs |-> IdleTermCmd]
    /\ channelCloses = 0
    /\ pumpExits = 0
    /\ ptyCmds = 0

\* The senders of the command channel that are alive: the PtySession in the
\* registry, or the one terminal_close has removed or ssh_disconnect /
\* ssh_reconnect has taken and still holds.
PtySenderAlive ==
    ptyRegistered \/ \E p \in Procs : termCmd[p].cmd \in {"close", "disconnect"}
                                        /\ termCmd[p].pc = "send"

\* cmd_tx.send(..).await cannot complete: the channel is full and the pump,
\* which holds the receiver, is alive.
SendSuspended == Len(cmd_rx) >= PtyChannelCap /\ pumpPc # "ended"

\* A command is invoked: terminal_write, terminal_resize or terminal_close on
\* the terminal, ssh_disconnect or ssh_reconnect on its connection
\* ("disconnect"), or a command on another terminal or connection. It first
\* waits for the registry mutex.
TerminalCommands == {"write", "resize", "close", "disconnect", "other"}
TerminalCommandCalled(p, cmd) ==
    /\ termCmd[p] = IdleTermCmd
    /\ \A q \in Procs : q < p => termCmd[q] # IdleTermCmd
    /\ ptyCmds < MaxPtyCmds
    /\ ptyCmds' = ptyCmds + 1
    /\ termCmd' = [termCmd EXCEPT ![p] = [cmd |-> cmd, pc |-> "lock"]]
    /\ UNCHANGED <<ptyRegistered, cmd_rx, pumpPc, stateLock, channelCloses, pumpExits>>
    /\ UNCHANGED nonPtyVars

\* state.lock().await returns, and the command runs up to its first await
\* under the lock: get_terminal_mut (terminal_write, terminal_resize) or
\* remove_terminal (terminal_close). Without the terminal the command returns
\* and the lock is released (terminal_not_found, or Ok for terminal_close); the
\* other commands release it after their map access. ssh_disconnect and
\* ssh_reconnect take the terminal in a lock scope of its own
\* (connection.rs:212-219, 296-301) and close it after the scope.
TerminalCommandLocks(p) ==
    /\ termCmd[p].pc = "lock"
    /\ stateLock = 0
    /\ IF termCmd[p].cmd # "other" /\ ptyRegistered
          THEN /\ stateLock' = IF termCmd[p].cmd = "disconnect" THEN 0 ELSE p
               /\ termCmd' = [termCmd EXCEPT ![p].pc = "send"]
               /\ ptyRegistered' = (termCmd[p].cmd \notin {"close", "disconnect"})
          ELSE /\ termCmd' = [termCmd EXCEPT ![p] = IdleTermCmd]
               /\ UNCHANGED <<stateLock, ptyRegistered>>
    /\ UNCHANGED <<cmd_rx, pumpPc, channelCloses, pumpExits, ptyCmds>>
    /\ UNCHANGED nonPtyVars

\* The send of the command completes, with the lock still held: the command is
\* in the channel, or the pump has ended and the send fails. terminal_write
\* removes the terminal on that failure ("channel closed"); terminal_close
\* ignores it. The command returns and the lock is released. The close of a
\* taken terminal sends Close without the lock.
TerminalCommandSends(p) ==
    /\ termCmd[p].pc = "send"
    /\ ~SendSuspended
    /\ IF pumpPc = "ended"
          THEN /\ ptyRegistered' = (ptyRegistered /\ termCmd[p].cmd # "write")
               /\ UNCHANGED cmd_rx
          ELSE /\ cmd_rx' = Append(cmd_rx, IF termCmd[p].cmd = "disconnect"
                                              THEN "close" ELSE termCmd[p].cmd)
               /\ UNCHANGED ptyRegistered
    /\ stateLock' = IF stateLock = p THEN 0 ELSE stateLock
    /\ termCmd' = [termCmd EXCEPT ![p] = IdleTermCmd]
    /\ UNCHANGED <<pumpPc, channelCloses, pumpExits, ptyCmds>>
    /\ UNCHANGED nonPtyVars

\* timeout(500 ms, terminal.close()) elapses while the send is suspended
\* (connection.rs:220-223, 325-328): the taken PtySession is dropped and no
\* Close is sent.
TerminalCloseTimesOut(p) ==
    /\ termCmd[p] = [cmd |-> "disconnect", pc |-> "send"]
    /\ SendSuspended
    /\ termCmd' = [termCmd EXCEPT ![p] = IdleTermCmd]
    /\ UNCHANGED <<ptyRegistered, cmd_rx, pumpPc, stateLock, channelCloses, pumpExits,
                   ptyCmds>>
    /\ UNCHANGED nonPtyVars

\* The mutation of the pump that goes on selecting after channel.close().
PumpLoopsOn == "select"

\* `break` after channel.close() and channel_writer.shutdown() (pty.rs:128-132).
PumpAfterClose == "ended"

\* The pump leaves its loop: the task ends and the receiver is dropped.
PumpBreaks ==
    /\ pumpPc' = "ended"
    /\ pumpExits' = pumpExits + 1
    /\ cmd_rx' = <<>>

\* The arm Some(PtyCommand::Close) | None, with `rest` left in the channel.
PumpCloses(rest) ==
    /\ channelCloses' = channelCloses + 1
    /\ pumpPc' = PumpAfterClose
    /\ pumpExits' = IF PumpAfterClose = "ended" THEN pumpExits + 1 ELSE pumpExits
    /\ cmd_rx' = IF PumpAfterClose = "ended" THEN <<>> ELSE rest

\* cmd_rx.recv() yields a command (pty.rs:113-133).
PumpReceives ==
    /\ pumpPc = "select"
    /\ cmd_rx # <<>>
    /\ CASE Head(cmd_rx) = "write" ->
                /\ pumpPc' = "writing"
                /\ cmd_rx' = Tail(cmd_rx)
                /\ UNCHANGED <<channelCloses, pumpExits>>
         [] Head(cmd_rx) = "resize" ->
                /\ pumpPc' = "resizing"
                /\ cmd_rx' = Tail(cmd_rx)
                /\ UNCHANGED <<channelCloses, pumpExits>>
         [] OTHER -> PumpCloses(Tail(cmd_rx))
    /\ UNCHANGED <<ptyRegistered, stateLock, termCmd, ptyCmds>>
    /\ UNCHANGED nonPtyVars

\* cmd_rx.recv() yields None: every sender is dropped and the channel is empty.
PumpReceivesNone ==
    /\ pumpPc = "select"
    /\ cmd_rx = <<>>
    /\ ~PtySenderAlive
    /\ PumpCloses(<<>>)
    /\ UNCHANGED <<ptyRegistered, stateLock, termCmd, ptyCmds>>
    /\ UNCHANGED nonPtyVars

\* channel_writer.write_all returns (pty.rs:116-120): on an error the writer is
\* shut down and the loop is left. channel.window_change returns (pty.rs:125).
PumpAwaitEnds ==
    /\ \/ /\ pumpPc \in {"writing", "resizing"}
          /\ pumpPc' = "select"
          /\ UNCHANGED <<cmd_rx, pumpExits>>
       \/ /\ pumpPc = "writing"
          /\ PumpBreaks
    /\ UNCHANGED <<ptyRegistered, stateLock, termCmd, channelCloses, ptyCmds>>
    /\ UNCHANGED nonPtyVars

\* channel.wait() yields None, Eof or Close (pty.rs:87-92): the loop is left.
PumpChannelEnds ==
    /\ pumpPc = "select"
    /\ PumpBreaks
    /\ UNCHANGED <<ptyRegistered, stateLock, termCmd, channelCloses, ptyCmds>>
    /\ UNCHANGED nonPtyVars

\* =====================================================================
\* One PTY session from PtySession::new to the end of its task (ssh/pty.rs),
\* with the terminal commands that reach it (commands/terminal.rs,
\* commands/connection.rs)
\* =====================================================================

\* What channel.wait() can yield: None, or Some of a ChannelMsg.
ChannelMsgs == {"None", "Eof", "Close", "Data", "ExtendedData", "WindowAdjusted"}

\* The match on the channel message (pty.rs:87-110): whether the loop is left
\* and whether a terminal_output event is emitted.
OnChannelMsg(msg) ==
    [break |-> msg \in {"None", "Eof", "Close"},
     emit |-> msg \in {"Data", "ExtendedData"}]

\* A command channel that hands out the newest command first.
TakeNewest(q) == [cmd |-> q[Len(q)], rest |-> SubSeq(q, 1, Len(q) - 1)]

\* cmd_rx.recv() on a channel that holds commands: the oldest one.
TakeOldest(q) == [cmd |-> Head(q), rest |-> Tail(q)]

\* Display of tokio's mpsc SendError, of PtyError::ChannelError (pty.rs:15-16)
\* and str::to_lowercase, on texts as sequences of words.
SendError_to_string == <<"channel", "closed">>
PtyError_ChannelError_to_string(raw) == <<"Channel", "error:">> \o raw
to_lowercase(text) ==
    [i \in DOMAIN text |-> IF text[i] = "Channel" THEN "channel" ELSE text[i]]

\* A test for the text of the closed channel that never finds it.
contains_nothing(text, pattern) == FALSE

\* str::contains
contains(text, pattern) ==
    \E i \in 1..(Len(text) - Len(pattern) + 1) :
       SubSeq(text, i, i + Len(pattern) - 1) = pattern

\* One write_all on the channel that returned Ok: the cd line, the startup
\* command, or the bytes of a Write command.
Written(what, data) == [what |-> what, data |-> data]

NoPtyCommand == [cmd |-> "none", result |-> "none", registered |-> FALSE, alive |-> FALSE]

PumpInit ==
    /\ ptyTask = [pc |-> "new", working_dir |-> FALSE, startup_command |-> FALSE,
                  exit |-> "none", data |-> 0]
    /\ ptyChannel = [written |-> <<>>, arrived |-> <<>>, emitted |-> <<>>, closes |-> 0]
    /\ ptyCommands = <<>>
    /\ ptyHandle = "none"
    /\ ptyAccepted = <<>>
    /\ ptyLast = NoPtyCommand
    /\ ptyCalls = 0

\* The task is alive: the receiver of the command channel exists.
PumpAlive == ptyTask.pc \notin {"new", "ended"}

\* The task is in its select loop or in an await of one of its arms.
PumpInLoop == ptyTask.pc \in {"select", "writing", "resizing"}

\* The task leaves its loop and ends.
PumpEnded(cause) ==
    [ptyTask EXCEPT !.pc = "ended", !.exit = cause, !.data = 0]

\* PtySession::new (pty.rs:43-145), with or without a working directory and a
\* startup command; terminal_create registers the session.
PtySessionNew(working_dir, startup_command) ==
    /\ ptyTask.pc = "new"
    /\ ptyTask' = [ptyTask EXCEPT !.pc = "cd", !.working_dir = working_dir,
                                  !.startup_command = startup_command]
    /\ ptyHandle' = "registered"
    /\ UNCHANGED <<ptyChannel, ptyCommands, ptyAccepted, ptyLast, ptyCalls>>
    /\ UNCHANGED nonPumpVars

\* The write of the cd line (pty.rs:64-72): a failure is logged.
PumpStartupCd(ok) ==
    /\ ptyTask.pc = "cd"
    /\ ptyTask.working_dir \/ ok
    /\ ptyTask' = [ptyTask EXCEPT !.pc = "startup"]
    /\ ptyChannel' = IF ptyTask.working_dir /\ ok
                        THEN [ptyChannel EXCEPT !.written = Append(@, Written("cd", 0))]
                        ELSE ptyChannel
    /\ UNCHANGED <<ptyCommands, ptyHandle, ptyAccepted, ptyLast, ptyCalls>>
    /\ UNCHANGED nonPumpVars

\* The write of the startup command (pty.rs:74-81): a failure is logged.
PumpStartupCommand(ok) ==
    /\ ptyTask.pc = "startup"
    /\ ptyTask.startup_command \/ ok
    /\ ptyTask' = [ptyTask EXCEPT !.pc = "select"]
    /\ ptyChannel' = IF ptyTask.startup_command /\ ok
                        THEN [ptyChannel EXCEPT !.written = Append(@, Written("startup", 0))]
                        ELSE ptyChannel
    /\ UNCHANGED <<ptyCommands, ptyHandle, ptyAccepted, ptyLast, ptyCalls>>
    /\ UNCHANGED nonPumpVars

\* channel.wait() yields msg (pty.rs:86-111). A Data or ExtendedData message
\* carries the bytes ptyCalls.
PumpChannelMsg(msg) ==
    /\ ptyTask.pc = "select"
    /\ ptyCalls < MaxPumpEvents
    /\ ptyCalls' = ptyCalls + 1
    /\ ptyTask' = IF OnChannelMsg(msg).break THEN PumpEnded("channel") ELSE ptyTask
    /\ ptyChannel' = [ptyChannel EXCEPT
          !.arrived = IF msg \in {"Data", "ExtendedData"} THEN Append(@, ptyCalls) ELSE @,
          !.emitted = IF OnChannelMsg(msg).emit THEN Append(@, ptyCalls) ELSE @]
    /\ ptyCommands' = IF OnChannelMsg(msg).break THEN <<>> ELSE ptyCommands
    /\ UNCHANGED <<ptyHandle, ptyAccepted, ptyLast>>
    /\ UNCHANGED nonPumpVars

\* cmd_rx.recv() yields a command (pty.rs:113-134).
PumpRecv ==
    /\ ptyTask.pc = "select"
    /\ ptyCommands # <<>>
    /\ LET got == TakeOldest(ptyCommands) IN
       CASE got.cmd.kind = "Write" ->
               /\ ptyTask' = [ptyTask EXCEPT !.pc = "writing", !.data = got.cmd.data]
               /\ ptyCommands' = got.rest
               /\ UNCHANGED ptyChannel
         [] got.cmd.kind = "Resize" ->
               /\ ptyTask' = [ptyTask EXCEPT !.pc = "resizing"]
               /\ ptyCommands' = got.rest
               /\ UNCHANGED ptyChannel
         [] OTHER ->
               /\ ptyTask' = PumpEnded("Close")
               /\ ptyCommands' = <<>>
               /\ ptyChannel' = [ptyChannel EXCEPT !.closes = @ + 1]
    /\ UNCHANGED <<ptyHandle, ptyAccepted, ptyLast, ptyCalls>>
    /\ UNCHANGED nonPumpVars

\* cmd_rx.recv() yields None (pty.rs:129): the channel is empty and the
\* PtySession, which holds the only sender, is dropped.
PumpRecvNone ==
    /\ ptyTask.pc = "select"
    /\ ptyCommands = <<>>
    /\ ptyHandle \in {"dropped", "closed"}
    /\ ptyTask' = PumpEnded("SenderDropped")
    /\ ptyChannel' = [ptyChannel EXCEPT !.closes = @ + 1]
    /\ UNCHANGED <<ptyCommands, ptyHandle, ptyAccepted, ptyLast, ptyCalls>>
    /\ UNCHANGED nonPumpVars

\* channel_writer.write_all(&data) returns (pty.rs:116-120).
PumpWriteEnds(ok) ==
    /\ ptyTask.pc = "writing"
    /\ IF ok
          THEN /\ ptyTask' = [ptyTask EXCEPT !.pc = "select", !.data = 0]
               /\ ptyChannel' = [ptyChannel EXCEPT !.written = Append(@, Written("data", ptyTask.data))]
               /\ UNCHANGED ptyCommands
          ELSE /\ ptyTask' = PumpEnded("WriteFailed")
               /\ ptyCommands' = <<>>
               /\ UNCHANGED ptyChannel
    /\ UNCHANGED <<ptyHandle, ptyAccepted, ptyLast, ptyCalls>>
    /\ UNCHANGED nonPumpVars

\* channel.window_change returns (pty.rs:125-127): a failure is logged.
PumpResizeEnds(ok) ==
    /\ ptyTask.pc = "resizing"
    /\ ptyTask' = [ptyTask EXCEPT !.pc = "select"]
    /\ UNCHANGED <<ptyChannel, ptyCommands, ptyHandle, ptyAccepted, ptyLast, ptyCalls>>
    /\ UNCHANGED nonPumpVars

\* A terminal command that sends is suspended while the channel is full.
PtyChannelFull == PumpAlive /\ Len(ptyCommands) >= PtyChannelCap

PtyCommandReturns(cmd, result) ==
    ptyLast' = [cmd |-> cmd, result |-> result, registered |-> ptyHandle = "registered",
                alive |-> PumpAlive]

\* terminal_write (terminal.rs:57-87) with the bytes ptyCalls.
TerminalWrite ==
    /\ ptyTask.pc # "new"
    /\ ~(ptyHandle = "registered" /\ PtyChannelFull)
    /\ ptyCalls < MaxPumpEvents
    /\ ptyCalls' = ptyCalls + 1
    /\ IF ptyHandle # "registered"
          THEN /\ PtyCommandReturns("terminal_write", "terminal_not_found")
               /\ UNCHANGED <<ptyCommands, ptyHandle, ptyAccepted>>
       ELSE IF PumpAlive
          THEN /\ ptyCommands' = Append(ptyCommands, [kind |-> "Write", data |-> ptyCalls])
               /\ ptyAccepted' = Append(ptyAccepted, ptyCalls)
               /\ PtyCommandReturns("terminal_write", "Ok")
               /\ UNCHANGED ptyHandle
          ELSE LET raw == PtyError_ChannelError_to_string(SendError_to_string) IN
               /\ ptyHandle' = IF contains(to_lowercase(raw), <<"channel", "closed">>)
                                  THEN "dropped" ELSE ptyHandle
               /\ PtyCommandReturns("terminal_write", "terminal_write_failed")
               /\ UNCHANGED <<ptyCommands, ptyAccepted>>
    /\ UNCHANGED <<ptyTask, ptyChannel>>
    /\ UNCHANGED nonPumpVars

\* terminal_resize (terminal.rs:91-113).
TerminalResize ==
    /\ ptyTask.pc # "new"
    /\ ~(ptyHandle = "registered" /\ PtyChannelFull)
    /\ ptyCalls < MaxPumpEvents
    /\ ptyCalls' = ptyCalls + 1
    /\ IF ptyHandle # "registered"
          THEN /\ PtyCommandReturns("terminal_resize", "terminal_not_found")
               /\ UNCHANGED ptyCommands
       ELSE IF PumpAlive
          THEN /\ ptyCommands' = Append(ptyCommands, [kind |-> "Resize", data |-> 0])
               /\ PtyCommandReturns("terminal_resize", "Ok")
          ELSE /\ PtyCommandReturns("terminal_resize", "terminal_resize_failed")
               /\ UNCHANGED ptyCommands
    /\ UNCHANGED <<ptyTask, ptyChannel, ptyHandle, ptyAccepted>>
    /\ UNCHANGED nonPumpVars

\* terminal_close (terminal.rs:117-133): the session is removed, close() sends
\* Close, ignoring a closed channel, and the session is dropped.
TerminalClose ==
    /\ ptyTask.pc # "new"
    /\ ~(ptyHandle = "registered" /\ PtyChannelFull)
    /\ ptyCalls < MaxPumpEvents
    /\ ptyCalls' = ptyCalls + 1
    /\ PtyCommandReturns("terminal_close", "Ok")
    /\ IF ptyHandle = "registered"
          THEN /\ ptyHandle' = "closed"
               /\ ptyCommands' = IF PumpAlive
                                    THEN Append(ptyCommands, [kind |-> "Close", data |-> 0])
                                    ELSE ptyCommands
          ELSE UNCHANGED <<ptyHandle, ptyCommands>>
    /\ UNCHANGED <<ptyTask, ptyChannel, ptyAccepted>>
    /\ UNCHANGED nonPumpVars

\* ssh_disconnect or ssh_reconnect takes the session out of the registry and
\* timeout(500 ms, terminal.close()) elapses with the send suspended on the
\* full channel (connection.rs:212-223, 296-328): the session is dropped and
\* no Close was sent.
TerminalDroppedUnclosed ==
    /\ ptyHandle = "registered"
    /\ PtyChannelFull
    /\ ptyCalls < MaxPumpEvents
    /\ ptyCalls' = ptyCalls + 1
    /\ ptyHandle' = "dropped"
    /\ PtyCommandReturns("ssh_disconnect", "Ok")
    /\ UNCHANGED <<ptyTask, ptyChannel, ptyCommands, ptyAccepted>>
    /\ UNCHANGED nonPumpVars

\* =====================================================================

\* Host-key store and its file (ssh/known_hosts.rs)
\* =====================================================================

\* Host arguments as character sequences (one of them needs trimming) and the
\* ports they are paired with.
Hosts == {<<"h">>, <<" ", "h", " ">>}
Ports == {2, 22}

\* str::trim on a host.
RECURSIVE trim_start(_)
trim_start(s) ==
    IF s # <<>> /\ s[1] = " " THEN trim_start(Tail(s)) ELSE s

RECURSIVE trim_end(_)
trim_end(s) ==
    IF s # <<>> /\ s[Len(s)] = " " THEN trim_end(SubSeq(s, 1, Len(s) - 1)) ELSE s

trim(s) == trim_end(trim_start(s))

\* The decimal digits of a u16, as `{}` formats it.
Digit(d) == <<"0", "1", "2", "3", "4", "5", "6", "7", "8", "9">>[d + 1]

RECURSIVE to_string(_)
to_string(n) ==
    IF n < 10 THEN <<Digit(n)>> ELSE to_string(n \div 10) \o <<Digit(n % 10)>>

\* key(host, port): format!("{}:{}", host.trim(), port).
key(host, port) == trim(host) \o <<":">> \o to_string(port)

\* The OpenSSH text of server key k.
PublicKeyOpenssh(k) == <<"ssh-ed25519", k>>

\* The KnownHostEntry upsert builds from its arguments at time t.
KnownHostEntry(host, port, key_type, fingerprint_sha256, public_key_openssh, t) ==
    [host |-> trim(host), port |-> port, key_type |-> key_type,
     fingerprint_sha256 |-> fingerprint_sha256,
     public_key_openssh |-> public_key_openssh, trusted_at |-> t]

\* KnownHostsState::default().
KnownHostsState_default == [loaded |-> FALSE, entries |-> <<>>]

\* serde of one entry under rename_all = "camelCase", and back.
to_json(e) ==
    [host |-> e.host, port |-> e.port, keyType |-> e.key_type,
     fingerprintSha256 |-> e.fingerprint_sha256,
     publicKeyOpenssh |-> e.public_key_openssh, trustedAt |-> e.trusted_at]

from_json(j) ==
    [host |-> j.host, port |-> j.port, key_type |-> j.keyType,
     fingerprint_sha256 |-> j.fingerprintSha256,
     public_key_openssh |-> j.publicKeyOpenssh, trusted_at |-> j.trustedAt]

\* serde_json::to_vec_pretty(&state.entries): one member per key of the map.
to_vec_pretty(es) == {<<k, to_json(es[k])>> : k \in DOMAIN es}

\* serde_json::from_slice of a document save_locked wrote.
from_slice(bytes) ==
    [k \in {m[1] : m \in bytes} |-> from_json((CHOOSE m \in bytes : m[1] = k)[2])]

\* The file: absent (fs::read answers NotFound), or holding a document that
\* parses (valid) or one that does not.
NotFound == [found |-> FALSE, valid |-> TRUE, bytes |-> {}]
File(bytes) == [found |-> TRUE, valid |-> TRUE, bytes |-> bytes]

\* A load that takes a document that does not parse for an empty store.
ensure_loaded_lenient(state, file, read_ok) ==
    IF state.loaded THEN [ok |-> TRUE, state |-> state]
    ELSE IF ~file.found \/ ~file.valid
        THEN [ok |-> TRUE, state |-> [state EXCEPT !.loaded = TRUE]]
    ELSE IF ~read_ok THEN [ok |-> FALSE, state |-> state]
    ELSE [ok |-> TRUE, state |-> [loaded |-> TRUE, entries |-> from_slice(file.bytes)]]

\* ensure_loaded_locked: nothing to do once loaded; an absent file leaves the
\* map as it is; a read error or a document that does not parse leaves the
\* state unloaded.
ensure_loaded_locked(state, file, read_ok) ==
    IF state.loaded THEN [ok |-> TRUE, state |-> state]
    ELSE IF ~file.found
        THEN [ok |-> TRUE, state |-> [state EXCEPT !.loaded = TRUE]]
    ELSE IF ~read_ok \/ ~file.valid THEN [ok |-> FALSE, state |-> state]
    ELSE [ok |-> TRUE, state |-> [loaded |-> TRUE, entries |-> from_slice(file.bytes)]]

\* The outcomes of fs::read that make a difference: the file is read only by a
\* store that is not loaded, and an absent file is NotFound.
ReadOutcomes ==
    IF KNOWN_HOSTS.loaded \/ ~known_hosts_json.found THEN {TRUE} ELSE BOOLEAN

\* A save that reports Ok and writes nothing.
save_skipped(state, file, write_ok) == [ok |-> TRUE, file |-> file]

\* save_locked: the whole map rewritten; create_dir_all or the write failing
\* before a byte is written leaves the file as it was.
save_locked(state, file, write_ok) ==
    IF write_ok THEN [ok |-> TRUE, file |-> File(to_vec_pretty(state.entries))]
    ELSE [ok |-> FALSE, file |-> file]

\* get (l.78-82): the Option it returns is the set `value`.
get(state, file, host, port, read_ok) ==
    LET l == ensure_loaded_locked(state, file, read_ok)
        es == l.state.entries IN
    [ok |-> l.ok, state |-> l.state, file |-> file,
     value |-> IF l.ok /\ key(host, port) \in DOMAIN es
                  THEN {es[key(host, port)]} ELSE {}]

\* upsert (l.84-106) at time t: load, insert, save; the insert stays in memory
\* when the save fails.
upsert(state, file, host, port, key_type, fingerprint_sha256, public_key_openssh, t, read_ok, write_ok) ==
    LET l == ensure_loaded_locked(state, file, read_ok)
        inserted == [l.state EXCEPT !.entries =
                        map_insert(@, key(host, port),
                                   KnownHostEntry(host, port, key_type,
                                                  fingerprint_sha256,
                                                  public_key_openssh, t))]
        saved == save_locked(inserted, file, write_ok) IN
    IF l.ok THEN [ok |-> saved.ok, state |-> inserted, file |-> saved.file, value |-> {}]
            ELSE [ok |-> FALSE, state |-> l.state, file |-> file, value |-> {}]

\* remove (l.108-113).
remove(state, file, host, port, read_ok, write_ok) ==
    LET l == ensure_loaded_locked(state, file, read_ok)
        removed == [l.state EXCEPT !.entries = map_remove(@, key(host, port))]
        saved == save_locked(removed, file, write_ok) IN
    IF l.ok THEN [ok |-> saved.ok, state |-> removed, file |-> saved.file, value |-> {}]
            ELSE [ok |-> FALSE, state |-> l.state, file |-> file, value |-> {}]

\* list (l.115-119): the entries it returns, as a set.
list(state, file, read_ok) ==
    LET l == ensure_loaded_locked(state, file, read_ok)
        es == l.state.entries IN
    [ok |-> l.ok, state |-> l.state, file |-> file,
     value |-> IF l.ok THEN {es[k] : k \in DOMAIN es} ELSE {}]

\* One call as the caller saw it: the arguments (k: the key whose fingerprint
\* is given, pk: the public key text given), whether it returned Ok, the
\* entries it returned and the error it returned.
StoreCallOf(fn, host, port, k, pk, ok, value, err) ==
    [fn |-> fn, host |-> host, port |-> port, k |-> k, pk |-> pk, ok |-> ok,
     value |-> value, err |-> err]

StoreCall(fn, host, port, k, ok, value) ==
    StoreCallOf(fn, host, port, k, <<>>, ok, value, IF ok THEN "" ELSE "Err")

NoStoreCall == StoreCall("none", <<>>, 0, 0, FALSE, {})

Remember(call) == storeHist' = <<storeHist[2], storeHist[3], call>>

StoreInit ==
    /\ KNOWN_HOSTS = KnownHostsState_default
    /\ known_hosts_json = NotFound
    /\ storeHist = <<NoStoreCall, NoStoreCall, NoStoreCall>>
    /\ storeOps = 0

\* A call of get.
StoreGet(host, port, read_ok) ==
    /\ storeOps < MaxStoreOps
    /\ storeOps' = storeOps + 1
    /\ LET r == get(KNOWN_HOSTS, known_hosts_json, host, port, read_ok) IN
       /\ KNOWN_HOSTS' = r.state
       /\ Remember(StoreCall("get", host, port, 0, r.ok, r.value))
    /\ UNCHANGED known_hosts_json
    /\ UNCHANGED nonStoreVars

\* A call of upsert with the key type, fingerprint and public key of key k.
StoreUpsert(host, port, k, read_ok, write_ok) ==
    /\ storeOps < MaxStoreOps
    /\ storeOps' = storeOps + 1
    /\ LET r == upsert(KNOWN_HOSTS, known_hosts_json, host, port, "ssh-ed25519",
                       Fingerprint(k), PublicKeyOpenssh(k), storeOps,
                       read_ok, write_ok) IN
       /\ KNOWN_HOSTS' = r.state
       /\ known_hosts_json' = r.file
       /\ Remember(StoreCall("upsert", host, port, k, r.ok, {}))
    /\ UNCHANGED nonStoreVars

\* A call of remove.
StoreRemove(host, port, read_ok, write_ok) ==
    /\ storeOps < MaxStoreOps
    /\ storeOps' = storeOps + 1
    /\ LET r == remove(KNOWN_HOSTS, known_hosts_json, host, port, read_ok, write_ok) IN
       /\ KNOWN_HOSTS' = r.state
       /\ known_hosts_json' = r.file
       /\ Remember(StoreCall("remove", host, port, 0, r.ok, {}))
    /\ UNCHANGED nonStoreVars

\* The process ends and starts again: the static is built anew by
\* KNOWN_HOSTS.get_or_init (l.74-76), the file stays.
StoreRestart ==
    /\ storeOps < MaxStoreOps
    /\ storeOps' = storeOps + 1
    /\ KNOWN_HOSTS' = KnownHostsState_default
    /\ Remember(StoreCall("restart", <<>>, 0, 0, TRUE, {}))
    /\ UNCHANGED known_hosts_json
    /\ UNCHANGED nonStoreVars

\* ---------------------------------------------------------------------
\* Concurrent callers of the store (SpecStoreLock). Every operation of
\* known_hosts.rs starts with `store().lock().await` and keeps the guard to
\* its end, over the await of fs::read in ensure_loaded_locked and of
\* fs::write in save_locked.
\* ---------------------------------------------------------------------

StoreFns == {"get", "upsert", "remove", "list"}

IdleTask ==
    [pc |-> "idle", fn |-> "none", host |-> <<>>, port |-> 0, k |-> 0, t |-> 0,
     read_ok |-> TRUE, write_ok |-> TRUE, alone |-> [ok |-> FALSE, value |-> {}],
     contended |-> FALSE, saved |-> [ok |-> FALSE, file |-> NotFound]]

\* The operation a task calls, run to its end on a store and a file.
RunAlone(task, state, file, read_ok, write_ok) ==
    CASE task.fn = "get" -> get(state, file, task.host, task.port, read_ok)
      [] task.fn = "upsert" ->
            upsert(state, file, task.host, task.port, "ssh-ed25519",
                   Fingerprint(task.k), PublicKeyOpenssh(task.k), task.t,
                   read_ok, write_ok)
      [] task.fn = "remove" ->
            remove(state, file, task.host, task.port, read_ok, write_ok)
      [] OTHER -> list(state, file, read_ok)

\* The outcomes of fs::write that make a difference: get and list write nothing.
WriteOutcomes(task) == IF task.fn \in {"upsert", "remove"} THEN BOOLEAN ELSE {TRUE}

\* A mutex whose lock() never waits.
StoreLockIgnored == TRUE

\* `store().lock().await` returns: no caller holds the guard.
StoreLockFree == lockHolder = 0

LockInit ==
    /\ storeTasks = [p \in Procs |-> IdleTask]
    /\ lockHolder = 0
    /\ serialStore = [state |-> KnownHostsState_default, file |-> NotFound]
    /\ fileReads = 0
    /\ lastReturn = [fn |-> "none", host |-> <<>>, port |-> 0, t |-> 0, ok |-> FALSE,
                     value |-> {}, alone |-> [ok |-> FALSE, value |-> {}],
                     contended |-> FALSE]

\* Caller p calls fn and waits for the mutex. The callers are numbered in the
\* order they are taken: a caller is idle only if the ones after it are.
LockCall(p, fn, host, port, k) ==
    /\ storeTasks[p].pc = "idle"
    /\ \A q \in Procs : q < p => storeTasks[q].pc # "idle"
    /\ storeOps < MaxLockedCalls
    /\ storeOps' = storeOps + 1
    /\ storeTasks' = [storeTasks EXCEPT ![p] =
            [IdleTask EXCEPT !.pc = "lock", !.fn = fn, !.host = host, !.port = port,
                             !.k = IF fn = "upsert" THEN k ELSE 0,
                             !.t = storeOps, !.contended = lockHolder # 0]]
    /\ UNCHANGED <<KNOWN_HOSTS, known_hosts_json, lockHolder, serialStore, fileReads,
                   lastReturn>>
    /\ UNCHANGED nonLockVars

\* Caller p gets the guard. The outcomes of its reads and writes are drawn
\* here, and the call is run alone on serialStore, in the order of the guards.
LockAcquire(p, read_ok, write_ok) ==
    /\ storeTasks[p].pc = "lock"
    /\ write_ok \in WriteOutcomes(storeTasks[p])
    /\ StoreLockFree
    /\ lockHolder' = p
    /\ LET r == RunAlone(storeTasks[p], serialStore.state, serialStore.file,
                         read_ok, write_ok) IN
       /\ serialStore' = [state |-> r.state, file |-> r.file]
       /\ storeTasks' = [storeTasks EXCEPT ![p] =
               [@ EXCEPT !.pc = "load", !.read_ok = read_ok, !.write_ok = write_ok,
                         !.alone = [ok |-> r.ok, value |-> r.value]]]
    /\ UNCHANGED <<KNOWN_HOSTS, known_hosts_json, storeOps, fileReads, lastReturn>>
    /\ UNCHANGED nonLockVars

\* The call of caller p returns and its guard is dropped.
LockReturn(p, ok, value) ==
    LET task == storeTasks[p] IN
    /\ lastReturn' = [fn |-> task.fn, host |-> task.host, port |-> task.port,
                      t |-> task.t, ok |-> ok, value |-> value, alone |-> task.alone,
                      contended |-> task.contended]
    /\ storeTasks' = [storeTasks EXCEPT ![p] = IdleTask]
    /\ lockHolder' = 0

\* ensure_loaded_locked ends in caller p. get and list return; upsert and
\* remove change the map, serialize it (to_vec_pretty) and start the write.
LockLoad(p) ==
    LET task == storeTasks[p]
        l == ensure_loaded_locked(KNOWN_HOSTS, known_hosts_json, task.read_ok)
        r == RunAlone(task, KNOWN_HOSTS, known_hosts_json, task.read_ok,
                      task.write_ok) IN
    /\ task.pc = "load"
    /\ KNOWN_HOSTS' = r.state
    /\ fileReads' = IF ~KNOWN_HOSTS.loaded /\ known_hosts_json.found /\ l.ok
                       THEN fileReads + 1 ELSE fileReads
    /\ IF l.ok /\ task.fn \in {"upsert", "remove"}
          THEN /\ storeTasks' = [storeTasks EXCEPT ![p] =
                      [@ EXCEPT !.pc = "save",
                                !.saved = [ok |-> r.ok, file |-> r.file]]]
               /\ UNCHANGED <<lockHolder, lastReturn>>
          ELSE LockReturn(p, r.ok, r.value)
    /\ UNCHANGED <<known_hosts_json, storeOps, serialStore>>
    /\ UNCHANGED nonLockVars

\* fs::write of save_locked ends in caller p, and the call returns.
LockSave(p) ==
    LET task == storeTasks[p] IN
    /\ task.pc = "save"
    /\ known_hosts_json' = IF task.saved.ok THEN task.saved.file ELSE known_hosts_json
    /\ LockReturn(p, task.saved.ok, {})
    /\ UNCHANGED <<KNOWN_HOSTS, storeOps, serialStore, fileReads>>
    /\ UNCHANGED nonLockVars

\* The process ends with no call running and starts again, after the store
\* was loaded: the static is built anew, the file stays.
LockRestart ==
    /\ \A p \in Procs : storeTasks[p].pc = "idle"
    /\ KNOWN_HOSTS.loaded
    /\ KNOWN_HOSTS' = KnownHostsState_default
    /\ serialStore' = [serialStore EXCEPT !.state = KnownHostsState_default]
    /\ fileReads' = 0
    /\ lastReturn' = [lastReturn EXCEPT !.fn = "restart"]
    /\ UNCHANGED <<known_hosts_json, storeTasks, lockHolder, storeOps>>
    /\ UNCHANGED nonLockVars

\* ---------------------------------------------------------------------

\* The callers of the store: ssh_trust_host_key, ssh_forget_host_key,
\* ssh_list_trusted_host_keys (commands/connection.rs) and check_server_key in
\* a connect attempt (ssh/client.rs)
\* ---------------------------------------------------------------------

\* The public key texts a request can carry: the OpenSSH text of a key, or a
\* text SshPublicKey::from_openssh rejects.
PublicKeyTexts == {PublicKeyOpenssh(k) : k \in Keys} \cup {<<"garbage">>}

\* SshPublicKey::from_openssh succeeds.
from_openssh(pk) == Len(pk) = 2 /\ pk[1] = "ssh-ed25519"

\* parsed.fingerprint(HashAlg::Sha256) of a text that parses.
fingerprint_of(pk) == Fingerprint(pk[2])

\* A check that accepts every fingerprint.
fingerprint_unchecked(computed, provided) == FALSE

\* `computed != request.fingerprint_sha256` (connection.rs:473).
fingerprint_differs(computed, provided) == computed # provided

\* ssh_trust_host_key (connection.rs:467-503) at time t.
ssh_trust_host_key(state, file, host, port, fp, pk, t, read_ok, write_ok) ==
    IF ~from_openssh(pk)
       THEN [ok |-> FALSE, err |-> "invalid_public_key", state |-> state, file |-> file]
    ELSE IF fingerprint_differs(fingerprint_of(pk), fp)
       THEN [ok |-> FALSE, err |-> "hostkey_fingerprint_mismatch",
             state |-> state, file |-> file]
    ELSE LET r == upsert(state, file, host, port, pk[1], fp, pk, t, read_ok, write_ok) IN
         [ok |-> r.ok, err |-> IF r.ok THEN "" ELSE "hostkey_store_failed",
          state |-> r.state, file |-> r.file]

\* check_server_key on the store (client.rs:287-315) and the SshError the
\* attempt of connect ends with (client.rs:583-640): the error of the store
\* becomes ClientError::HostKeyStore and then SshError::ConnectionFailed.
check_server_key_in_attempt(state, file, host, port, k, read_ok) ==
    LET r == get(state, file, host, port, read_ok)
        t == key(host, port)
        existing == [x \in {t} |-> IF r.value = {} THEN NoEntry
                                   ELSE (CHOOSE e \in r.value : TRUE).fingerprint_sha256]
        verdict == check_server_key(existing, t, k) IN
    [state |-> r.state,
     err |-> IF ~r.ok THEN "ConnectionFailed"
             ELSE IF verdict = Trusted THEN "" ELSE verdict.kind]

\* The last call alone is kept.
Observe(call) == storeHist' = <<NoStoreCall, NoStoreCall, call>>

HostKeyTrust(host, port, k, pk, read_ok, write_ok) ==
    /\ storeOps < MaxStoreOps
    /\ storeOps' = storeOps + 1
    /\ LET r == ssh_trust_host_key(KNOWN_HOSTS, known_hosts_json, host, port,
                                   Fingerprint(k), pk, storeOps, read_ok, write_ok) IN
       /\ KNOWN_HOSTS' = r.state
       /\ known_hosts_json' = r.file
       /\ Observe(StoreCallOf("ssh_trust_host_key", host, port, k, pk, r.ok, {}, r.err))
    /\ UNCHANGED nonStoreVars

\* ssh_forget_host_key (connection.rs:506-518).
HostKeyForget(host, port, read_ok, write_ok) ==
    /\ storeOps < MaxStoreOps
    /\ storeOps' = storeOps + 1
    /\ LET r == remove(KNOWN_HOSTS, known_hosts_json, host, port, read_ok, write_ok) IN
       /\ KNOWN_HOSTS' = r.state
       /\ known_hosts_json' = r.file
       /\ Observe(StoreCallOf("ssh_forget_host_key", host, port, 0, <<>>, r.ok, {},
                              IF r.ok THEN "" ELSE "hostkey_store_failed"))
    /\ UNCHANGED nonStoreVars

\* ssh_list_trusted_host_keys (connection.rs:456-463).
HostKeyList(read_ok) ==
    /\ storeOps < MaxStoreOps
    /\ storeOps' = storeOps + 1
    /\ LET r == list(KNOWN_HOSTS, known_hosts_json, read_ok) IN
       /\ KNOWN_HOSTS' = r.state
       /\ Observe(StoreCallOf("ssh_list_trusted_host_keys", <<>>, 0, 0, <<>>, r.ok,
                              r.value, IF r.ok THEN "" ELSE "hostkey_store_failed"))
    /\ UNCHANGED known_hosts_json
    /\ UNCHANGED nonStoreVars

\* A connect attempt reaches check_server_key with the server presenting key k.
HostKeyCheck(host, port, k, read_ok) ==
    /\ storeOps < MaxStoreOps
    /\ storeOps' = storeOps + 1
    /\ LET r == check_server_key_in_attempt(KNOWN_HOSTS, known_hosts_json, host, port,
                                            k, read_ok) IN
       /\ KNOWN_HOSTS' = r.state
       /\ Observe(StoreCallOf("check_server_key", host, port, k, <<>>, r.err = "", {},
                              r.err))
    /\ UNCHANGED known_hosts_json
    /\ UNCHANGED nonStoreVars

\* known_hosts.json is left with a document that does not parse (an edit, or
\* a write cut short by the end of the process).
HostKeyFileDamaged ==
    /\ known_hosts_json.found /\ known_hosts_json.valid
    /\ known_hosts_json' = [known_hosts_json EXCEPT !.valid = FALSE]
    /\ UNCHANGED <<KNOWN_HOSTS, storeHist, storeOps>>
    /\ UNCHANGED nonStoreVars

Init == RegistryInit /\ ConnectInit /\ FacadeInit /\ ActorInit /\ CacheInit /\ StateInit
        /\ PtyInit /\ StoreInit /\ LockInit /\ KeysInit /\ PumpInit
        /\ DeleteInit

Next ==
    \/ \E c \in ConnIds : SshConnect(c)
    \/ \E p \in Procs, c \in ConnIds : SshReconnectTake(p, c)
    \/ \E p \in Procs : SshReconnectConnect(p)
    \/ \E p \in Procs : SshReconnectAdd(p)
    \/ \E p \in Procs, c \in ConnIds : SshDisconnectTake(p, c)
    \/ \E p \in Procs : SshDisconnectSend(p)
    \/ \E p \in Procs : SshDisconnectWait(p)
    \/ \E p \in Procs, c \in ConnIds : TerminalCreateGetSender(p, c)
    \/ \E p \in Procs : TerminalCreateSend(p)
    \/ \E p \in Procs : TerminalCreateAwait(p)
    \/ \E p \in Procs : TerminalCreateAdd(p)
    \/ \E t \in TermIds : TerminalRemove(t)
    \/ \E a \in ActorIds : ActorStart(a)
    \/ \E a \in ActorIds : ActorRecv(a)
    \/ \E a \in ActorIds : ActorFinishPty(a)
    \/ \E a \in ActorIds : ActorFinishDisconnect(a)
    \/ \E a \in ActorIds : ActorMailboxClosed(a)

Spec == Init /\ [][Next]_vars

\* Connections that are opened, given terminals and disconnected, with the
\* scheduling the runtime gives a running ssh_disconnect: its send completes
\* (the mailbox has room or the actor has ended), and its wait for the
\* acknowledgement ends with the reply, with the closed channel or with the 5 s
\* timeout. Nothing is assumed of the actor. Its mailbox is never found closed
\* here: ssh_disconnect holds the handle it removed until the actor has
\* acknowledged or has been aborted.
NextDisconnect ==
    \/ \E c \in ConnIds : SshConnect(c)
    \/ \E p \in Procs, c \in ConnIds : SshDisconnectTake(p, c)
    \/ \E p \in Procs : SshDisconnectSend(p)
    \/ \E p \in Procs : SshDisconnectWait(p)
    \/ \E p \in Procs, c \in ConnIds : TerminalCreateGetSender(p, c)
    \/ \E p \in Procs : TerminalCreateSend(p)
    \/ \E p \in Procs : TerminalCreateAwait(p)
    \/ \E p \in Procs : TerminalCreateAdd(p)
    \/ \E t \in TermIds : TerminalRemove(t)
    \/ \E a \in ActorIds : ActorStart(a)
    \/ \E a \in ActorIds : ActorRecv(a)
    \/ \E a \in ActorIds : ActorFinishPty(a)
    \/ \E a \in ActorIds : ActorFinishDisconnect(a)

SpecDisconnect ==
    /\ Init
    /\ [][NextDisconnect]_vars
    /\ \A p \in Procs : WF_vars(SshDisconnectSend(p)) /\ WF_vars(SshDisconnectWait(p))

\* The commands and actors of one connection id with the scheduling the
\* runtime and the timers give: a spawned task is polled, a waiting actor receives what is in its
\* mailbox, the CreatePty arm ends (PTY_TIMEOUT bounds it), and the wait of
\* ssh_disconnect ends (its 5 s timeout bounds it). Nothing is assumed of
\* connection.disconnect() in the actor, which runs under no timeout.
LiveConn == "c1"

NextLive ==
    \/ SshConnect(LiveConn)
    \/ \E p \in Procs : SshReconnectTake(p, LiveConn)
    \/ \E p \in Procs : SshReconnectConnect(p)
    \/ \E p \in Procs : SshReconnectAdd(p)
    \/ \E p \in Procs : SshDisconnectTake(p, LiveConn)
    \/ \E p \in Procs : SshDisconnectSend(p)
    \/ \E p \in Procs : SshDisconnectWait(p)
    \/ \E p \in Procs : TerminalCreateGetSender(p, LiveConn)
    \/ \E p \in Procs : TerminalCreateSend(p)
    \/ \E p \in Procs : TerminalCreateAwait(p)
    \/ \E p \in Procs : TerminalCreateAdd(p)
    \/ \E t \in TermIds : TerminalRemove(t)
    \/ \E a \in ActorIds : ActorStart(a)
    \/ \E a \in ActorIds : ActorRecv(a)
    \/ \E a \in ActorIds : ActorFinishPty(a)
    \/ \E a \in ActorIds : ActorFinishDisconnect(a)
    \/ \E a \in ActorIds : ActorMailboxClosed(a)

SpecLive ==
    /\ Init
    /\ [][NextLive]_vars
    /\ \A a \in ActorIds :
          WF_vars(ActorStart(a)) /\ WF_vars(ActorRecv(a)) /\ WF_vars(ActorFinishPty(a))
    /\ \A p \in Procs : WF_vars(SshDisconnectWait(p))

NextConnect ==
    \/ \E t \in Targets, k \in Keys, fp \in Fingerprints : SshTrustHostKey(t, k, fp)
    \/ \E t \in Targets : SshForgetHostKey(t)
    \/ \E t \in Targets : ConnectResolve(t)
    \/ ConnectSort
    \/ ConnectTcp
    \/ ConnectHandshake
    \/ ConnectAuth
    \/ ConnectReturn

SpecConnect == Init /\ [][NextConnect]_vars

\* connect to a host that resolves to several addresses of each family and
\* whose key is not in the store: the traversal of the addresses.
NextTraverse ==
    \/ ConnectResolveWide
    \/ ConnectSort
    \/ ConnectTcp
    \/ ConnectHandshake
    \/ ConnectReturn

SpecTraverse == Init /\ [][NextTraverse]_vars

NextFacade ==
    \/ \E kind \in SftpKinds : FacadeInvoke(kind)
    \/ FacadeStep
    \/ FacadeReturn

NextDelete == DeleteInvoke \/ DeleteStep \/ DeleteReturn

SpecDelete == Init /\ [][NextDelete]_vars

SpecFacade == Init /\ [][NextFacade]_vars

NextActor ==
    \/ ActorLoopStart
    \/ \E kind \in RequestKinds : Send(kind)
    \/ ActorTakeRequest
    \/ ActorStep
    \/ ActorDeadline
    \/ ActorDisconnect
    \/ CacheEntryExpires

SpecActor == Init /\ [][NextActor]_vars

\* The actor loop with the CreatePty arm.
NextFrame ==
    \/ NextActor
    \/ ActorCreatePty

SpecFrame == Init /\ [][NextFrame]_vars

NextCache ==
    \/ \E path \in Paths : CacheListDir(path)
    \/ \E kind \in MutationKinds, path \in Paths :
          \E new_path \in (IF kind = "Rename" THEN Paths ELSE {NoPath}) :
             CacheMutate(kind, path, new_path)
    \/ ClockAdvances

SpecCache == Init /\ [][NextCache]_vars

NextEvict ==
    \/ \E path \in Paths : CacheListDirScaled(path)
    \/ \E kind \in MutationKinds, path \in Paths :
          \E new_path \in (IF kind = "Rename" THEN Paths ELSE {NoPath}) :
             CacheMutate(kind, path, new_path)
    \/ ClockAdvances

SpecEvict == Init /\ [][NextEvict]_vars

NextKeys ==
    \/ \E path \in Spellings : KeysListDir(path)
    \/ ClockAdvances

SpecKeys == Init /\ [][NextKeys]_vars

NextState ==
    \/ \E c \in ConnIds, h \in ActorIds : StateAddConnection(c, h)
    \/ \E c \in ConnIds : StateRemoveConnection(c)
    \/ \E t \in TermIds, c \in ConnIds : StateAddTerminal(t, c)
    \/ \E t \in TermIds : StateRemoveTerminal(t)
    \/ \E c \in ConnIds : StateTakeTerminals(c)

SpecState == Init /\ [][NextState]_vars

NextPty ==
    \/ \E p \in Procs, cmd \in TerminalCommands : TerminalCommandCalled(p, cmd)
    \/ \E p \in Procs : TerminalCommandLocks(p)
    \/ \E p \in Procs : TerminalCommandSends(p)
    \/ \E p \in Procs : TerminalCloseTimesOut(p)
    \/ PumpReceives
    \/ PumpReceivesNone
    \/ PumpAwaitEnds
    \/ PumpChannelEnds

SpecPty == Init /\ [][NextPty]_vars

NextKnownHosts ==
    \/ \E host \in Hosts, port \in Ports, read_ok \in ReadOutcomes :
          StoreGet(host, port, read_ok)
    \/ \E host \in Hosts, port \in Ports, k \in Keys, read_ok \in ReadOutcomes,
          write_ok \in BOOLEAN :
          StoreUpsert(host, port, k, read_ok, write_ok)
    \/ \E host \in Hosts, port \in Ports, read_ok \in ReadOutcomes,
          write_ok \in BOOLEAN :
          StoreRemove(host, port, read_ok, write_ok)
    \/ StoreRestart

NextPump ==
    \/ \E working_dir \in BOOLEAN, startup_command \in BOOLEAN :
          PtySessionNew(working_dir, startup_command)
    \/ \E ok \in BOOLEAN : PumpStartupCd(ok)
    \/ \E ok \in BOOLEAN : PumpStartupCommand(ok)
    \/ \E msg \in ChannelMsgs : PumpChannelMsg(msg)
    \/ PumpRecv
    \/ PumpRecvNone
    \/ \E ok \in BOOLEAN : PumpWriteEnds(ok)
    \/ \E ok \in BOOLEAN : PumpResizeEnds(ok)
    \/ TerminalWrite
    \/ TerminalResize
    \/ TerminalClose
    \/ TerminalDroppedUnclosed

SpecPump == Init /\ [][NextPump]_vars

SpecKnownHosts == Init /\ [][NextKnownHosts]_vars

NextHostKeys ==
    \/ \E host \in Hosts, port \in Ports, k \in Keys, pk \in PublicKeyTexts,
          read_ok \in ReadOutcomes, write_ok \in BOOLEAN :
          HostKeyTrust(host, port, k, pk, read_ok, write_ok)
    \/ \E host \in Hosts, port \in Ports, read_ok \in ReadOutcomes,
          write_ok \in BOOLEAN :
          HostKeyForget(host, port, read_ok, write_ok)
    \/ \E read_ok \in ReadOutcomes : HostKeyList(read_ok)
    \/ \E host \in Hosts, port \in Ports, k \in Keys, read_ok \in ReadOutcomes :
          HostKeyCheck(host, port, k, read_ok)
    \/ HostKeyFileDamaged
    \/ StoreRestart

SpecHostKeys == Init /\ [][NextHostKeys]_vars

NextStoreLock ==
    \/ \E p \in Procs, fn \in StoreFns, port \in Ports :
          LockCall(p, fn, <<"h">>, port, 1)
    \/ \E p \in Procs, read_ok \in ReadOutcomes, write_ok \in BOOLEAN :
          LockAcquire(p, read_ok, write_ok)
    \/ \E p \in Procs : LockLoad(p)
    \/ \E p \in Procs : LockSave(p)
    \/ LockRestart

SpecStoreLock == Init /\ [][NextStoreLock]_vars

\* =====================================================================
\* Properties of the registry specification
\* =====================================================================

\* C1: every terminal in the registry has a connectionId that is a key of the
\* connections map, under every interleaving of ssh_connect, ssh_reconnect,
\* ssh_disconnect, terminal_create, terminal_write and terminal_close.
\* terminal_create releases the registry lock between get_connection_sender and
\* add_terminal, so the connection can be removed in between.
C1_TerminalsReferToConnections ==
    \A t \in TermIds : terminals[t] # "none" => connections[terminals[t]] # 0

\* C4: every spawned actor emits "connected" exactly once and then
\* "disconnected" exactly once, whatever ends it, an abort by ssh_disconnect or
\* ssh_reconnect included: the events of a running actor are a prefix of
\* <<"connected", "disconnected">> and those of an ended actor are all of it.
C4_ConnectedThenDisconnectedOnce ==
    \A a \in ActorIds :
        /\ actorPc[a] \in {"unspawned", "spawned"} => events[a] = <<>>
        /\ actorPc[a] \in {"waiting", "busy"} => events[a] = <<"connected">>
        /\ ActorEnded(a) => events[a] = <<"connected", "disconnected">>

\* C16: when ssh_reconnect(C) returns success, under any interleaving with other
\* commands, the registry maps C to the actor it spawned, the actor it found
\* registered for C has been aborted (or had ended), and no terminal of C in the
\* registry has its PTY on another actor's connection than the new one.
\* terminal_create adds its PtySession in a lock scope of its own, so a PTY
\* created by the old actor can be registered after ssh_reconnect has taken the
\* terminals of C.
C16_ReconnectLeavesNoStaleTerminal ==
    [][\A p \in Procs :
          (At(p, "reconnect", "add") /\ procs'[p].cmd = "idle") =>
              /\ connections'[procs[p].conn] = procs[p].actor
              /\ procs[p].stale # 0 =>
                    actorPc'[procs[p].stale] \in {"aborted", "exited"}
              /\ \A t \in TermIds :
                    terminals'[t] = procs[p].conn => ptyActor'[t] = procs[p].actor]_vars

\* C18: whenever a connection dies (explicit disconnect, mailbox closure or the
\* actor leaving its loop on a fatal error) every PTY created on it is cleaned
\* up, so no terminal whose PTY is on the connection of an ended actor is in
\* the registry. The actor emits "disconnected" when it leaves its loop and
\* touches no terminal; only ssh_disconnect and ssh_reconnect take terminals.
C18_DeadConnectionHasNoTerminal ==
    \A t \in TermIds :
        terminals[t] # "none" => ~ActorEnded(ptyActor[t])

C5_HostKeyVerification ==
    /\ hostKeyCheck # NoCheck =>
          /\ hostKeyCheck.verdict = "trusted"
                <=> hostKeyCheck.existing = Fingerprint(hostKeyCheck.key)
          /\ hostKeyCheck.verdict = "HostKeyUntrusted"
                <=> hostKeyCheck.existing = NoEntry
          /\ hostKeyCheck.verdict = "HostKeyMismatch"
                <=> hostKeyCheck.existing \notin {NoEntry, Fingerprint(hostKeyCheck.key)}
    /\ \A i \in DOMAIN attempts :
          attempts[i].out = "trusted" =>
              /\ i = Len(attempts)
              /\ handle = attempts[i].addr
              /\ hostKeyCheck.verdict = "trusted"
    /\ handle # 0 => hostKeyCheck.verdict = "trusted"
    /\ connResult = Connected => handle # 0

\* C5 witness: connect returned a connection after the store gained the entry
\* for its target, while the other target has no entry.
C5_Witness ==
    /\ connResult = Connected
    /\ hostKeyCheck.verdict = "trusted"
    /\ knownHosts[connTarget] = Fingerprint(hostKeyCheck.key)
    /\ \E t \in Targets : t # connTarget /\ knownHosts[t] = NoEntry

\* C6: when a handshake attempt ends with HostKeyUntrusted or HostKeyMismatch,
\* no further attempt is made on that address or a later one, and connect
\* returns exactly that error. The code leaves only the inner loop on a host-key
\* error (client.rs:615, 645) and goes on with the next address.
C6_HostKeyErrorIsFinal ==
    \A i \in DOMAIN attempts :
        attempts[i].out \in HostKeyErrors =>
            /\ i = Len(attempts)
            /\ connPc = "done"
            /\ connResult.kind = attempts[i].out
            /\ connResult = last_error

\* =====================================================================
\* Properties of the facade specification
\* =====================================================================

\* C7: a facade operation invokes its X_once once; if and only if that attempt
\* fails with SftpTimeout or SftpSessionClosed it clears the cached session
\* handle and invokes X_once exactly once more, returning the result of the
\* second attempt; any other first result is returned without recycle and
\* retry. There are never more than two attempts.
C7_RetryOnceOnTransient ==
    /\ op.attempt <= 2
    /\ op.recycles <= 1
    /\ op.pc # "idle" =>
          /\ op.attempt = 2 <=> op.first \in {"SftpTimeout", "SftpSessionClosed"}
          /\ op.attempt = 2 => op.recycles = 1 /\ op.cleared
          /\ op.attempt = 1 => op.recycles = 0 /\ op.second = "none"
    /\ op.pc = "done" =>
          /\ op.result # "none"
          /\ op.result = IF op.attempt = 2 THEN op.second ELSE op.first

\* C7 witness: a first attempt failed with SftpSessionClosed, the session was
\* opened anew and the second attempt's success was returned.
C7_Witness ==
    /\ op.pc = "done"
    /\ op.attempt = 2
    /\ op.first = "SftpSessionClosed"
    /\ op.opens >= 1
    /\ op.result = "Ok"

\* C8: over a sequence of facade operations in which exactly one call to the
\* server fails with Timeout (and no other call fails), there is exactly one
\* session recycle and exactly one retry, and, the retry succeeding, the caller
\* observes no error. A Timeout of read_to_end or write_all becomes SftpError
\* and one of remove_file is dropped, so neither is recycled or retried.
C8_OneTimeoutOneRecycleOneRetry ==
    (op.pc = "idle" /\ hist.timeouts = 1 /\ hist.failures = 1) =>
        /\ hist.recycles = 1
        /\ hist.retries = 1
        /\ hist.errors = 0

\* =====================================================================
\* Properties of the actor specification
\* =====================================================================

\* C2: at any moment at most one SFTP request is in progress on the connection,
\* a facade retry included, however many requests are waiting in the mailbox;
\* the facade call in progress is the one of that request.
C2_OneSftpRequestInProgress ==
    /\ Cardinality(inflight) <= 1
    /\ op.pc # "idle" => inflight = {request.id}
    /\ inflight # {} => request.id \in inflight /\ op.kind = request.kind

\* C2 witness: a request is in its facade retry while another SFTP request waits.
C2_Witness ==
    /\ inflight # {}
    /\ op.attempt = 2
    /\ rx # <<>>
    /\ rx[1].kind \in SftpKinds

\* C3: requests are taken from the mailbox in the order they entered it and are
\* answered in that order, a ListDir answered from the cache included: the
\* answers so far are those of requests 1, 2, ... in turn, the request in hand
\* is the next one, and the mailbox holds the following ones in order.
C3_RepliesInEnqueueOrder ==
    /\ \A i \in DOMAIN replies : replies[i] = i
    /\ request # NoReq => request.id = Len(replies) + 1
    /\ \A i \in DOMAIN rx :
          rx[i].id = Len(replies) + (IF request = NoReq THEN 0 ELSE 1) + i

\* C3 witness: the second of two requests was a ListDir answered from the cache.
C3_Witness ==
    /\ Len(replies) >= 2
    /\ last.cached
    /\ last.id = replies[Len(replies)]

\* C9: when the timeout of an SFTP request expires the actor clears the session
\* handle, answers SftpTimeout without retrying, and keeps running: it is back
\* at its mailbox and has emitted no "disconnected".
C9_TimeoutIsAnsweredAndSurvived ==
    /\ \A id \in expiredIds : \E i \in DOMAIN replies : replies[i] = id
    /\ last.expired => last.res = "SftpTimeout"
    /\ (last.expired /\ request = NoReq) =>
          /\ loopPc = "waiting"
          /\ ~sftp
          /\ op = IdleOp
          /\ statusEvents = <<"connected">>

\* C9 witness: after a request that timed out, the next request was processed
\* on a session opened anew and succeeded.
C9_Witness ==
    /\ \E id \in expiredIds : id < last.id
    /\ ~last.expired
    /\ last.res = "Ok"
    /\ last.opens = 1
    /\ loopPc = "waiting"

\* C10: when the server stalls the first attempt of a ReadFile for 200 s, the
\* SFTP channel is re-opened exactly once and the read is retried exactly once
\* before the caller is answered; when the retry stalls too the answer is
\* SftpTimeout. READ_FILE_TIMEOUT (60 s) expires before the response timeout
\* (180 s), so the request is answered SftpTimeout after its first attempt.
C10_StalledReadIsRetriedOnce ==
    (last.kind = "ReadFile" /\ 1 \in last.stalls) =>
        /\ last.attempts = 2
        /\ last.opens = 1
        /\ 2 \in last.stalls => last.res = "SftpTimeout"

\* The classes of SshError that is_fatal_connection_error is specified to hold
\* fatal, and the three it is specified to let the actor survive.
C11_FatalClasses ==
    {"DnsLookupFailed", "TcpConnectFailed", "TcpConnectTimeout", "HandshakeFailed",
     "HandshakeJoinAborted", "HostKeyUntrusted", "HostKeyMismatch",
     "ConnectionFailed", "AuthenticationFailed", "ChannelError", "IoError"}
C11_SurvivedClasses == {"SftpTimeout", "SftpSessionClosed", "SftpError"}

\* C11: when the result of a request is an error of a fatal class the actor
\* answers the request with that error and leaves its loop: the answer is the
\* last one it ever gives, no request is in hand and none that was queued
\* behind is answered; when the result is SftpTimeout, SftpSessionClosed or
\* SftpError (or a success) the actor is still running after the answer.
C11_FatalErrorEndsTheLoop ==
    (last.kind \notin {"none", "Disconnect"}) =>
        /\ last.res \in C11_FatalClasses =>
              /\ loopPc = "exited"
              /\ replies # <<>> /\ replies[Len(replies)] = last.id
              /\ request = NoReq
              /\ statusEvents = <<"connected", "disconnected">>
        /\ last.res \in C11_SurvivedClasses \cup {"Ok"} =>
              /\ loopPc \in {"waiting", "busy"}
              /\ statusEvents = <<"connected">>
        /\ last.res \in C11_FatalClasses \cup C11_SurvivedClasses \cup {"Ok"}

\* C11 witness: the actor left its loop on a ChannelError while a request sent
\* after the failing one was still in the mailbox; that request has no answer.
C11_Witness ==
    /\ loopPc = "exited"
    /\ last.res = "ChannelError"
    /\ nextReq > last.id
    /\ Len(replies) = last.id

\* =====================================================================
\* Properties of the directory-cache specification
\* =====================================================================

\* C12: a ListDir whose normalized path has a cache entry of age at most the
\* 10 s TTL is answered with exactly the stored vector and the connection is
\* not used; an entry older than the TTL is never the answer: it is removed and
\* the listing is fetched from the server, and only a listing fetched by this
\* request is in the cache afterwards.
C12_FreshEntryAnswersWithoutSftp ==
    lastReq.kind = "ListDir" =>
        LET cache_key == normalize_dir_path(lastReq.path) IN
        /\ (lastReq.had /\ lastReq.age <= 10) =>
              /\ lastReq.hit
              /\ ~lastReq.fetched
              /\ lastReq.result = "Ok"
              /\ lastReq.reply = lastReq.stored
        /\ (lastReq.had /\ lastReq.age > 10) =>
              /\ ~lastReq.hit
              /\ lastReq.fetched
              /\ cache_key \in DOMAIN entries =>
                    /\ lastReq.result = "Ok"
                    /\ entries[cache_key].entries = lastReq.reply
                    /\ now - entries[cache_key].created_at < lastReq.age
        /\ lastReq.hit => lastReq.had /\ lastReq.age <= 10

\* C12 witness: a ListDir was answered from an entry exactly 10 s old, stored
\* under the normalized form of a path given with a trailing slash, after the
\* remote file system had changed.
C12_Witness ==
    /\ lastReq.kind = "ListDir"
    /\ lastReq.hit
    /\ lastReq.age = 10
    /\ lastReq.path # normalize_dir_path(lastReq.path)
    /\ lastReq.reply < serverVer

\* The directory a path names an entry of, as the path itself says it: the
\* path without its trailing slashes and without its last component. The root
\* has none, and a single relative name lies in the login directory, which no
\* path of a request names.
C13_ParentOf(path) ==
    LET named == normalize_dir_path(path)
        slashes == {i \in DOMAIN named : named[i] = "/"}
        cut == CHOOSE i \in slashes : \A j \in slashes : j <= i
    IN  IF named = <<"/">> \/ slashes = {} THEN {}
        ELSE IF cut = 1 THEN {<<"/">>}
        ELSE {SubSeq(named, 1, cut - 1)}

\* The paths the latest request changed.
C13_Affected ==
    {lastReq.path} \cup (IF lastReq.kind = "Rename" THEN {lastReq.new_path} ELSE {})

\* C13: after a successful WriteFile, CreateFile, CreateDir, Delete or Rename on
\* any path P the cache holds no entry under the key a ListDir of the parent
\* directory of P uses (for Rename the parents of both paths, for Delete also
\* the key of P itself), so the next ListDir of that directory goes to the
\* server. parent_dir builds the parent from the non-empty segments behind a
\* leading slash, so the parent of the relative path a/a is taken to be /a and
\* the entry a ListDir of a stored under the key a stays.
C13_ParentAbsentAfterMutation ==
    (lastReq.kind \in MutationKinds /\ lastReq.result = "Ok") =>
        /\ \A path \in C13_Affected : \A parent \in C13_ParentOf(path) :
              normalize_dir_path(parent) \notin DOMAIN entries
        /\ lastReq.kind = "Delete" =>
              normalize_dir_path(lastReq.path) \notin DOMAIN entries

\* =====================================================================
\* Properties of the AppState specification
\* =====================================================================

C17_PumpEndsAndClosesAtMostOnce ==
    /\ pumpExits <= 1
    /\ channelCloses <= 1
    /\ (pumpPc = "ended") <=> (pumpExits = 1)
    /\ channelCloses = 1 => pumpPc = "ended"

\* C17 witness: the pump has closed the channel and left its loop after the
\* terminal was removed from the registry, with four commands or more issued.
C17_Witness ==
    /\ channelCloses = 1
    /\ pumpExits = 1
    /\ ~ptyRegistered
    /\ ptyCmds >= 4

\* C19: the registry mutex is held only while the maps are read or changed: no
\* command holds it while its send to a PTY command channel is suspended.
\* terminal_write, terminal_resize and terminal_close await the send of the
\* PtyCommand with the lock guard alive, so with the channel full and the pump
\* stalled in a write the lock stays held, and a command addressed to another
\* terminal or connection waits for it.
C19_LockNotHeldWhileSuspended ==
    \A p \in Procs :
        (stateLock = p /\ termCmd[p].pc = "send" /\ SendSuspended) =>
            \A q \in Procs : termCmd[q] # [cmd |-> "other", pc |-> "lock"]

\* =====================================================================
\* Properties of the host-key store specification
\* =====================================================================

\* The entry a get returned is the one an upsert was called with, the trust
\* timestamp aside.
C20_Returns(g, u) ==
    /\ Cardinality(g.value) = 1
    /\ \A e \in g.value :
          /\ e.host = trim(u.host)
          /\ e.port = u.port
          /\ e.key_type = "ssh-ed25519"
          /\ e.fingerprint_sha256 = Fingerprint(u.k)
          /\ e.public_key_openssh = PublicKeyOpenssh(u.k)

\* A get that returned Ok, asked for the host and port of a successful upsert.
C20_GetOf(g, u) ==
    /\ u.fn = "upsert" /\ u.ok
    /\ g.fn = "get" /\ g.ok
    /\ trim(g.host) = trim(u.host) /\ g.port = u.port

\* C20: the host-key store round-trips. A get right after an upsert of the
\* same host and port returns the upserted entry (the trust timestamp aside);
\* after upsert then remove of that host and port, get returns none; after
\* upsert and then a process restart (in-memory map discarded, file kept), get
\* returns the upserted entry.
C20_StoreRoundTrips ==
    /\ C20_GetOf(storeHist[3], storeHist[2])
          => C20_Returns(storeHist[3], storeHist[2])
    /\ C20_GetOf(storeHist[3], storeHist[1])
          => LET u == storeHist[1]
                 m == storeHist[2]
                 g == storeHist[3] IN
             /\ (m.fn = "remove" /\ trim(m.host) = trim(u.host) /\ m.port = u.port)
                   => g.value = {}
             /\ m.fn = "restart" => C20_Returns(g, u)

\* An entry upserted under a host that needs trimming, at port 22, is
\* returned by the get that follows a process restart.
C20_Witness ==
    /\ C20_GetOf(storeHist[3], storeHist[1])
    /\ storeHist[1].host # trim(storeHist[1].host)
    /\ storeHist[1].port = 22
    /\ storeHist[2].fn = "restart"
    /\ storeHist[3].value # {}

\* =====================================================================
\* Properties of the host-key callers specification
\* =====================================================================

\* The call the step made, if it made one.
C21_CallMade ==
    /\ storeOps' = storeOps + 1
    /\ storeHist'[3].fn # "restart"

C22_Consistent(e) ==
    /\ from_openssh(e.public_key_openssh)
    /\ e.fingerprint_sha256 = fingerprint_of(e.public_key_openssh)

\* A step that is ssh_trust_host_key called with a fingerprint that is not the
\* one of the public key given.
C22_MismatchedTrust ==
    /\ storeOps' = storeOps + 1
    /\ storeHist'[3].fn = "ssh_trust_host_key"
    /\ from_openssh(storeHist'[3].pk)
    /\ fingerprint_of(storeHist'[3].pk) # Fingerprint(storeHist'[3].k)

\* C22: every entry in the store, every entry of the document on disk and
\* every entry a call returns has fingerprintSha256 equal to the SHA-256
\* fingerprint of its public key; ssh_trust_host_key with a fingerprint that
\* does not match the public key fails with hostkey_fingerprint_mismatch and
\* leaves the store and the file unchanged.
C22_FingerprintMatchesPublicKey ==
    /\ [](/\ \A x \in DOMAIN KNOWN_HOSTS.entries : C22_Consistent(KNOWN_HOSTS.entries[x])
          /\ \A m \in known_hosts_json.bytes : C22_Consistent(from_json(m[2]))
          /\ \A e \in storeHist[3].value : C22_Consistent(e))
    /\ [][C22_MismatchedTrust =>
             /\ storeHist'[3].err = "hostkey_fingerprint_mismatch"
             /\ KNOWN_HOSTS' = KNOWN_HOSTS
             /\ known_hosts_json' = known_hosts_json]_vars

\* C22 witness: with an entry on disk, ssh_trust_host_key was called with the
\* fingerprint of one key and the public key of another and was refused.
C22_Witness ==
    /\ known_hosts_json.bytes # {}
    /\ storeHist[3].fn = "ssh_trust_host_key"
    /\ from_openssh(storeHist[3].pk)
    /\ fingerprint_of(storeHist[3].pk) # Fingerprint(storeHist[3].k)
    /\ storeHist[3].err = "hostkey_fingerprint_mismatch"

\* =====================================================================
\* Further properties of the registry specification
\* =====================================================================

\* C23: a connection id is bound to at most one connection: whenever an id
\* becomes a key of the registry or is bound to another actor, it is an id that
\* was never in use before. ssh_reconnect registers the connection it opens
\* under the conn_id its caller gives.
C23_ConnectionIdBoundOnce ==
    [][\A c \in ConnIds :
          (connections'[c] # 0 /\ connections'[c] # connections[c])
             => c \notin usedConnIds]_vars

\* =====================================================================
\* Properties of the address traversal
\* =====================================================================

\* The position of address a in the list q of distinct addresses.
C24_PositionIn(q, a) == CHOOSE i \in DOMAIN q : q[i] = a

\* r is the stable partition of q into IPv4 entries followed by IPv6 entries.
C24_StablePartition(q, r) ==
    /\ Len(r) = Len(q)
    /\ {r[i] : i \in DOMAIN r} = {q[i] : i \in DOMAIN q}
    /\ \A i, j \in DOMAIN r :
          i < j =>
             /\ ~(IsV6(r[i]) /\ IsV4(r[j]))
             /\ IsV4(r[i]) = IsV4(r[j]) =>
                   C24_PositionIn(q, r[i]) < C24_PositionIn(q, r[j])

\* The addresses attempted, each once, in the order of their first attempt.
RECURSIVE C24_Tried(_)
C24_Tried(log) ==
    IF log = <<>> THEN <<>>
    ELSE LET before == C24_Tried(SubSeq(log, 1, Len(log) - 1))
             a == log[Len(log)].addr IN
         IF before # <<>> /\ before[Len(before)] = a THEN before ELSE Append(before, a)

\* C24: the list the address loop runs over is the stable partition of the
\* list the resolver returned (IPv4 entries first, each family in the
\* resolver's order), and the addresses are attempted in the order of that
\* list, none skipped.
C24_TraversalIsStablePartition ==
    /\ [][(connPc = "resolved" /\ connPc' = "tcp")
             => C24_StablePartition(resolved, resolved')]_vars
    /\ [](connPc \in {"tcp", "handshake", "auth", "done"} =>
             /\ C24_Tried(attempts) = SubSeq(resolved, 1, Len(C24_Tried(attempts)))
             /\ connPc \in {"tcp", "handshake"} /\ resolved # <<>> =>
                   Len(C24_Tried(attempts)) \in {addrIdx - 1, addrIdx})

\* C24 witness: three addresses were attempted in the order 4, 2, 1: the two
\* IPv4 addresses first, in the order the resolver gave them (4 before 2),
\* then the IPv6 address.
C24_Witness ==
    /\ resolved = <<4, 2, 1>>
    /\ C24_Tried(attempts) = <<4, 2, 1>>
    /\ connPc = "done"

\* =====================================================================
\* Further properties of the connect specification
\* =====================================================================

\* The position of an attempt's address in the sorted list.
C25_Position(i) == CHOOSE n \in DOMAIN resolved : resolved[n] = attempts[i].addr

\* The outcomes of an attempt that has ended without a connection.
C25_Failures ==
    {"TcpConnectFailed", "TcpConnectTimeout", "HostKeyUntrusted", "HostKeyMismatch",
     "ConnectionFailed", "HandshakeFailed", "HandshakeJoinAborted"}

\* C25: an address gets at most two attempts; an attempt is the second one on
\* its address exactly when the attempt before it was the first one on that
\* address and its handshake ended join-aborted; after a TCP failure or
\* timeout, any other handshake error, or a second join-aborted, the next
\* attempt is the first one on the next address; no attempt follows a
\* successful handshake; there are at most twice as many attempts as addresses.
C25_AtMostTwoAttemptsPerAddress ==
    /\ Len(attempts) <= 2 * Len(resolved)
    /\ \A i \in DOMAIN attempts :
          /\ attempts[i].attempt \in {0, 1}
          /\ Cardinality({j \in DOMAIN attempts : attempts[j].addr = attempts[i].addr}) <= 2
          /\ i = 1 => attempts[i].attempt = 0 /\ C25_Position(i) = 1
          /\ i < Len(attempts) =>
                /\ attempts[i].out \in C25_Failures
                /\ IF attempts[i].out = "HandshakeJoinAborted" /\ attempts[i].attempt = 0
                      THEN /\ attempts[i + 1].attempt = 1
                           /\ attempts[i + 1].addr = attempts[i].addr
                      ELSE /\ attempts[i + 1].attempt = 0
                           /\ C25_Position(i + 1) = C25_Position(i) + 1
          /\ attempts[i].out = "trusted" => i = Len(attempts) /\ connPc \in {"auth", "done"}
    /\ (connPc = "tcp" /\ attempts # <<>>) =>
          LET n == Len(attempts) IN
          IF attempts[n].out = "HandshakeJoinAborted" /\ attempts[n].attempt = 0
             THEN attempt = 1 /\ resolved[addrIdx] = attempts[n].addr
             ELSE attempt = 0 /\ addrIdx = C25_Position(n) + 1

\* C25 witness: the first address was attempted twice (its first handshake
\* ended join-aborted), the second attempt failed otherwise, and the handshake
\* on the next address succeeded.
C25_Witness ==
    /\ Len(attempts) = 3
    /\ attempts[1].out = "HandshakeJoinAborted"
    /\ attempts[2].attempt = 1
    /\ attempts[2].out = "HandshakeFailed"
    /\ attempts[3].addr # attempts[1].addr
    /\ attempts[3].out = "trusted"

\* C26: when connect has ended without a successful handshake after some
\* attempt, it has returned the error of the last attempt made, and
\* authentication is only ever started after a successful handshake.
C26_LastErrorIsReturned ==
    /\ (connPc = "done" /\ attempts # <<>> /\ handle = 0) =>
          /\ attempts[Len(attempts)].out \in C25_Failures
          /\ connResult.kind = attempts[Len(attempts)].out
          /\ connResult = last_error
    /\ connPc = "auth" => attempts # <<>> /\ attempts[Len(attempts)].out = "trusted"
    /\ handle = 0 => connPc # "auth" /\ connResult \notin {Connected, Err("AuthenticationFailed")}

\* C26 witness: two addresses failed in different ways and connect returned the
\* error of the second.
C26_Witness ==
    /\ connPc = "done"
    /\ Len(attempts) = 2
    /\ attempts[1].out = "HandshakeFailed"
    /\ attempts[2].out = "TcpConnectTimeout"
    /\ connResult = Err("TcpConnectTimeout")

\* C27: when the lookup completes with an empty address list, connect fails
\* with DnsLookupFailed and makes no TCP attempt. The code returns
\* ConnectionFailed for the empty list (client.rs:382-388); DnsLookupFailed is
\* kept for the error of lookup_host.
C27_EmptyLookupIsDnsLookupFailed ==
    [][(connPc = "resolved" /\ resolved = <<>>) =>
          /\ connPc' = "done"
          /\ connResult'.kind = "DnsLookupFailed"
          /\ attempts' = <<>>]_vars

\* ---------------------------------------------------------------------
\* Properties of the specification of the store's lock (SpecStoreLock)
\* ---------------------------------------------------------------------

\* The callers past `store().lock().await` and not yet returned.
C28_InsideTheLock == {p \in Procs : storeTasks[p].pc \in {"load", "save"}}

\* C28: the operations of the host-key store exclude each other. At most one
\* caller is past the lock at a time; every call returns what it returns when
\* the calls are run alone one after the other in the order they got the
\* guard, and whenever no caller holds the guard the map and the file are the
\* ones that serial run leaves, so no upsert and no remove is lost; the
\* process reads and decodes the file at most once; and when an upsert or a
\* remove has returned Ok the file holds the whole map.
C28_StoreOperationsAreSerial ==
    /\ Cardinality(C28_InsideTheLock) <= 1
    /\ lastReturn.fn \in StoreFns =>
          /\ lastReturn.ok = lastReturn.alone.ok
          /\ lastReturn.value = lastReturn.alone.value
    /\ lockHolder = 0 =>
          /\ KNOWN_HOSTS = serialStore.state
          /\ known_hosts_json = serialStore.file
    /\ fileReads <= 1
    /\ (lockHolder = 0 /\ lastReturn.fn \in {"upsert", "remove"} /\ lastReturn.ok) =>
          known_hosts_json = File(to_vec_pretty(KNOWN_HOSTS.entries))

\* An upsert that was called while another caller held the guard has returned
\* Ok in a process that read the file once; the map and the file hold the
\* entries of both ports.
C28_Witness ==
    /\ lockHolder = 0
    /\ lastReturn.fn = "upsert" /\ lastReturn.ok /\ lastReturn.contended
    /\ fileReads = 1
    /\ Cardinality(DOMAIN KNOWN_HOSTS.entries) = 2
    /\ known_hosts_json = File(to_vec_pretty(KNOWN_HOSTS.entries))

\* ---------------------------------------------------------------------
\* Properties of the directory cache at its capacity (SpecEvict, SpecCache)
\* ---------------------------------------------------------------------

\* The step is a request of the actor, the one lastReq' tells of.
C29_Step == cacheOps' = cacheOps + 1

\* The step is a ListDir that was fetched from the server with success, which
\* calls dir_cache.put.
C29_Put ==
    /\ C29_Step
    /\ lastReq'.kind = "ListDir" /\ lastReq'.result = "Ok"
    /\ lastReq'.fetched /\ ~lastReq'.hit

\* The creation time key k has in the map the put evicts from.
C29_CreatedAt(k) ==
    IF k = normalize_dir_path(lastReq'.path) THEN now ELSE entries[k].created_at

\* C29: after every step of the actor the directory cache holds at most its
\* capacity of entries (max_entries: 128 in the actor, ScaledMaxEntries in
\* this specification); an entry appears, or gets a new creation time, only by
\* a ListDir fetched from the server with success, under the normalized path
\* of the request; and when that insertion takes the map over its capacity,
\* entries are evicted until it is at capacity again, each evicted entry
\* created no later than every entry that stays.
C29_CacheBoundedOldestEvicted ==
    /\ [](Cardinality(DOMAIN entries) <= ScaledMaxEntries)
    /\ [][ /\ \A k \in DOMAIN entries' :
                (k \notin DOMAIN entries \/ entries'[k] # entries[k]) =>
                   /\ C29_Put
                   /\ k = normalize_dir_path(lastReq'.path)
                   /\ entries'[k] = [created_at |-> now, entries |-> serverVer]
           /\ C29_Put =>
                LET cache_key == normalize_dir_path(lastReq'.path)
                    all == DOMAIN entries \cup {cache_key}
                    evicted == all \ DOMAIN entries' IN
                /\ DOMAIN entries' \subseteq all
                /\ IF Cardinality(all) > ScaledMaxEntries
                      THEN Cardinality(DOMAIN entries') = ScaledMaxEntries
                      ELSE evicted = {}
                /\ \A e \in evicted, r \in DOMAIN entries' :
                      C29_CreatedAt(e) <= entries'[r].created_at
       ]_vars

\* A ListDir fetched from the server has been stored in a full cache: an older
\* entry was evicted, the cache is at its capacity and the listing is in it.
C29_Witness ==
    /\ lastReq.kind = "ListDir" /\ lastReq.result = "Ok" /\ lastReq.fetched
    /\ lastReq.evicted # {}
    /\ normalize_dir_path(lastReq.path) \notin lastReq.evicted
    /\ Cardinality(DOMAIN entries) = ScaledMaxEntries
    /\ normalize_dir_path(lastReq.path) \in DOMAIN entries
    /\ \A k \in DOMAIN entries : entries[k].created_at > 0

\* ---------------------------------------------------------------------
\* Properties of the cache keys (SpecKeys)
\* ---------------------------------------------------------------------

\* y is x with a slash appended, x being neither the root nor empty.
C30_SlashAppended(x, y) == x \notin {<<"/">>, <<>>} /\ y = x \o <<"/">>

\* The same, x being any path other than the root.
C30_SlashAppendedToAny(x, y) == x # <<"/">> /\ y = x \o <<"/">>

\* The step is a ListDir request.
C30_ListDir == cacheOps' = cacheOps + 1 /\ lastReq'.kind = "ListDir"

\* A ListDir of "/" looks up and stores under the key "/".
C30_RootKey ==
    (C30_ListDir /\ lastReq'.path = <<"/">>) =>
       /\ lastReq'.had = (<<"/">> \in DOMAIN entries)
       /\ (lastReq'.fetched /\ lastReq'.result = "Ok") =>
             /\ <<"/">> \in DOMAIN entries'
             /\ cachedAs'[<<"/">>] = <<"/">>

\* C30: the keys of the directory cache are normalized. ListDir of "/" uses the
\* key "/"; and for every path p that is neither the root nor empty, a listing
\* stored by ListDir(p) and still within its TTL answers ListDir(p + "/")
\* from the cache, and one stored by ListDir(p + "/") answers ListDir(p).
C30_SpellingsShareASlot ==
    [][ /\ C30_RootKey
        /\ \A k \in DOMAIN entries :
              ( /\ C30_ListDir
                /\ \/ C30_SlashAppended(cachedAs[k], lastReq'.path)
                   \/ C30_SlashAppended(lastReq'.path, cachedAs[k])
                /\ within_ttl(entries[k].created_at, now) ) =>
                 /\ lastReq'.hit
                 /\ lastReq'.reply = entries[k].entries
                 /\ entries' = entries
      ]_vars

\* C30 as stated, for every path p other than the root: the empty path, which
\* names the login directory, and "/" do not share a slot.
C30_EverySpellingSharesASlot ==
    [][ \A k \in DOMAIN entries :
              ( /\ C30_ListDir
                /\ \/ C30_SlashAppendedToAny(cachedAs[k], lastReq'.path)
                   \/ C30_SlashAppendedToAny(lastReq'.path, cachedAs[k])
                /\ within_ttl(entries[k].created_at, now) ) =>
                 lastReq'.hit
      ]_vars

\* ListDir("/a/") was answered from the entry that ListDir("/a") stored.
C30_Witness ==
    /\ lastReq.kind = "ListDir" /\ lastReq.hit
    /\ lastReq.path = <<"/", "a", "/">>
    /\ <<"/", "a">> \in DOMAIN cachedAs
    /\ cachedAs[<<"/", "a">>] = <<"/", "a">>
    /\ lastReq.reply = entries[<<"/", "a">>].entries

\* ---------------------------------------------------------------------
\* Properties of the PTY task (SpecPump)
\* ---------------------------------------------------------------------

\* C31: the loop of the PTY task ends only because the channel delivered Eof,
\* Close or no message, because the write of a Write command failed, or
\* because a Close command was processed; and the Data and ExtendedData
\* messages that arrived are the terminal_output events emitted, in order.
C31_PumpEndsOnlyOnListedCauses ==
    /\ ptyTask.pc = "ended" => ptyTask.exit \in {"channel", "WriteFailed", "Close"}
    /\ ptyChannel.emitted = ptyChannel.arrived

\* C32: a PtySession dropped without a Close sent does not end its task: the
\* task of a dropped session leaves its loop only for the channel (its end, or
\* a write to it that fails) or for a Close command.
C32_DroppedHandleLeavesPumpRunning ==
    [][ (ptyHandle = "dropped" /\ PumpInLoop /\ ptyTask'.pc = "ended") =>
           ptyTask'.exit \in {"channel", "WriteFailed", "Close"} ]_vars

\* The step is a call of the terminal command cmd, which ptyLast' tells of.
C34_Call(cmd) == ptyCalls' = ptyCalls + 1 /\ ptyLast'.cmd = cmd

\* C34: a terminal_write to a registered terminal whose task has ended returns
\* terminal_write_failed and takes the terminal out of the registry; a
\* terminal that is out of the registry never comes back, and terminal_write
\* and terminal_resize on it return terminal_not_found; a terminal_write to a
\* terminal whose task is alive returns Ok and leaves the registry as it is.
C34_WriteToDeadPumpRemovesTerminal ==
    [][ /\ (C34_Call("terminal_write") /\ ptyHandle = "registered" /\ ~PumpAlive) =>
              /\ ptyLast'.result = "terminal_write_failed"
              /\ ptyHandle' # "registered"
        /\ (C34_Call("terminal_write") /\ ptyHandle = "registered" /\ PumpAlive) =>
              /\ ptyLast'.result = "Ok"
              /\ ptyHandle' = "registered"
        /\ ((C34_Call("terminal_write") \/ C34_Call("terminal_resize"))
               /\ ptyHandle # "registered") =>
              ptyLast'.result = "terminal_not_found"
        /\ ptyHandle \in {"dropped", "closed"} => ptyHandle' # "registered"
      ]_vars

\* A terminal_write found the terminal registered and its task ended after the
\* channel delivered Eof, Close or None: it returned terminal_write_failed and
\* the terminal is out of the registry.
C34_Witness ==
    /\ ptyLast = [cmd |-> "terminal_write", result |-> "terminal_write_failed",
                  registered |-> TRUE, alive |-> FALSE]
    /\ ptyTask.exit = "channel"
    /\ ptyHandle = "dropped"

\* The bytes of Write commands written to the channel, in the order written.
C40_Payloads ==
    LET data == SelectSeq(ptyChannel.written, LAMBDA w : w.what = "data") IN
    [i \in 1..Len(data) |-> data[i].data]

\* C40: the task writes to the channel the cd line (when a working directory
\* is given), then the startup command (when given), then bytes of Write
\* commands in the order their terminal_write calls were accepted; no command
\* is taken from the command channel before the startup writes are over; and
\* once the task has ended, after a Close command or otherwise, nothing more
\* is written.
C40_StartupThenWritesInOrder ==
    /\ [](LET w == ptyChannel.written IN
          /\ \A i \in 1..Len(w) :
                /\ w[i].what = "cd" => (i = 1 /\ ptyTask.working_dir)
                /\ w[i].what = "startup" =>
                      /\ ptyTask.startup_command
                      /\ i = 1 \/ (i = 2 /\ w[1].what = "cd")
          /\ Len(C40_Payloads) <= Len(ptyAccepted)
          /\ C40_Payloads = SubSeq(ptyAccepted, 1, Len(C40_Payloads)))
    /\ [][ /\ ptyTask.pc \in {"new", "cd", "startup"} =>
                /\ Len(ptyCommands') >= Len(ptyCommands)
                /\ SubSeq(ptyCommands', 1, Len(ptyCommands)) = ptyCommands
           /\ ptyTask.pc = "ended" => ptyChannel'.written = ptyChannel.written
         ]_vars

\* The cd line, the startup command and the bytes of two terminal_write calls
\* were written in that order, and the task ended on a Close command.
C40_Witness ==
    /\ Len(ptyChannel.written) = 4
    /\ ptyChannel.written[1].what = "cd"
    /\ ptyChannel.written[2].what = "startup"
    /\ Len(ptyAccepted) = 2
    /\ C40_Payloads = ptyAccepted
    /\ ptyTask.exit = "Close"

\* ---------------------------------------------------------------------
\* Properties of delete (SpecDelete)
\* ---------------------------------------------------------------------

\* C33: in every delete_once, remove_file is the first call on the session and
\* remove_dir is called only after remove_file of the same attempt failed, and
\* always then; delete returns Ok when the last call made, remove_file or
\* remove_dir, returned Ok, and when remove_dir failed it returns the error of
\* remove_dir: delete never ends on a failed remove_file.
C33_RemoveFileThenRemoveDir ==
    /\ \A i \in 1..Len(deleteLog) :
          LET e == deleteLog[i] IN
          /\ e.call = "remove_file" =>
                \/ i = 1
                \/ deleteLog[i - 1].attempt < e.attempt
                \/ deleteLog[i - 1].call = "ensure_sftp"
          /\ e.call = "remove_dir" =>
                /\ i > 1
                /\ deleteLog[i - 1].call = "remove_file"
                /\ deleteLog[i - 1].attempt = e.attempt
                /\ deleteLog[i - 1].ev # "Ok"
          /\ (e.call = "remove_file" /\ e.ev # "Ok") =>
                IF i < Len(deleteLog)
                   THEN /\ deleteLog[i + 1].call = "remove_dir"
                        /\ deleteLog[i + 1].attempt = e.attempt
                   ELSE op.pc = "call" /\ PendingCall(op) = "remove_dir"
    /\ (op.pc = "done" /\ deleteLog # <<>>) =>
          LET e == deleteLog[Len(deleteLog)] IN
          /\ e.call = "remove_file" => (e.ev = "Ok" /\ op.result = "Ok")
          /\ e.call = "remove_dir" =>
                op.result = IF e.ev = "Ok" THEN "Ok" ELSE map_sftp_error(e.ev)
          /\ e.call = "ensure_sftp" => op.result = e.ev

\* A delete has ended after remove_file failed and remove_dir failed in another
\* way: the error returned is that of remove_dir.
C33_Witness ==
    /\ op.kind = "Delete" /\ op.pc = "done"
    /\ Len(deleteLog) >= 2
    /\ deleteLog[Len(deleteLog) - 1].call = "remove_file"
    /\ deleteLog[Len(deleteLog) - 1].ev = "SessionClosed"
    /\ deleteLog[Len(deleteLog)].call = "remove_dir"
    /\ deleteLog[Len(deleteLog)].ev = "Other"
    /\ op.result = "SftpError"

\* ---------------------------------------------------------------------
\* Further properties of the facade specification (SpecFacade)
\* ---------------------------------------------------------------------

\* C35: the SFTP session is opened only by an ensure_sftp that found none
\* cached, and a cached session is dropped only by a reset; and when a facade
\* operation returns SftpTimeout or SftpSessionClosed, from its first attempt
\* or from its retry, the cached session has been reset, so that the next
\* request opens a new one.
C35_TransientErrorResetsSession ==
    /\ [][ /\ (~sftp /\ sftp') => (op.pc = "ensure" /\ op'.opens = op.opens + 1)
           /\ (sftp /\ ~sftp') => op'.recycles = op.recycles + 1 ]_vars
    /\ []((op.pc = "done" /\ op.result \in {"SftpTimeout", "SftpSessionClosed"}) => ~sftp)


\* =====================================================================
\* Actor tasks per connection id (registry specification)
\* =====================================================================

\* The actor tasks of connection id c that are running: the one whose handle is
\* registered under c and the ones an ssh_reconnect(c) has spawned and is about
\* to register.
C36_RunningActorsOf(c) ==
    {a \in ActorIds :
        /\ ~ActorEnded(a) /\ actorPc[a] # "unspawned"
        /\ \/ connections[c] = a
           \/ \E p \in Procs : At(p, "reconnect", "add") /\ procs[p].conn = c
                                  /\ procs[p].actor = a}

\* C36: at most one actor task runs per connection id under any interleaving of
\* ssh_connect, ssh_reconnect and ssh_disconnect, and a handle in the registry
\* is never replaced by another while its actor is still running and un-aborted.
C36_OneActorPerConnectionId ==
    /\ [](\A c \in ConnIds : Cardinality(C36_RunningActorsOf(c)) <= 1)
    /\ [][\A c \in ConnIds :
             (connections[c] # 0 /\ connections'[c] # 0 /\ connections'[c] # connections[c])
                => ActorEnded(connections[c])]_vars


\* =====================================================================
\* What changes the directory cache (SpecFrame)
\* =====================================================================

\* The step answers a request of the actor loop.
C37_Answers == Len(replies') = Len(replies) + 1

\* The step belongs to the handling of a request: it takes, advances or answers one.
C37_HandlesRequest == request' # request \/ op' # op \/ replies' # replies

C38_SenderAlive(p) ==
    \E a \in ActorIds :
       \/ current[a].from = p
       \/ \E i \in DOMAIN mailbox[a] : mailbox[a][i].from = p

\* The requester has its answer: a result was sent on the reply channel, or
\* the reply sender is gone with none sent (connection_closed).
C38_Resolved(p) == Replied(p) \/ ~C38_SenderAlive(p)

\* C38: every request enqueued in the mailbox of an actor is eventually
\* resolved for its requester, by a result on the reply channel or by the
\* closing of the reply channel, whether the actor answers it, exits on a fatal
\* error or on Disconnect with the request still queued, or is aborted.
C38_EveryRequestIsResolved ==
    \A p \in Procs : C38_SenderAlive(p) ~> C38_Resolved(p)

\* A CreatePty request is queued behind the request in hand of an actor that
\* then ends: the requester of the queued request finds its reply channel closed.
C38_Witness ==
    \E p \in Procs :
       /\ At(p, "termCreate", "wait")
       /\ ~Replied(p)
       /\ ~C38_SenderAlive(p)
       /\ actorPc[procs[p].actor] = "exited"


\* =====================================================================
\* Failed mutations of the host-key store (SpecKnownHosts)
\* =====================================================================

\* What get and list would return on the store and the file given.
C39_Answers(state, file) ==
    [gets |-> [h \in Hosts, p \in Ports |-> get(state, file, h, p, TRUE).value],
     list |-> list(state, file, TRUE).value]

\* C39: an upsert or remove that returns an error leaves the store unchanged:
\* get and list return after it what they returned before it.
C39_FailedMutationLeavesStoreUnchanged ==
    [][(/\ storeOps' = storeOps + 1
        /\ storeHist'[3].fn \in {"upsert", "remove"}
        /\ ~storeHist'[3].ok)
          => C39_Answers(KNOWN_HOSTS', known_hosts_json')
                = C39_Answers(KNOWN_HOSTS, known_hosts_json)]_vars

====
